---- MODULE Spec2Model ----
(***************************************************************************)
(* RestfulGit: the object resolver, tree flattener, path resolver, blame   *)
(* extractor, diff and commit converter, archive builder, lookup by SHA    *)
(* and by reference name, branch-unique-commit calculator, commit list,    *)
(* raw file and reference listing endpoints, repository listing and        *)
(* opening, and merged-branch listing, modelled over a small Git object    *)
(* store and a small directory tree.                                       *)
(*                                                                         *)
(* Object ids (SHAs) are strings.  Reference names and refspecs are        *)
(* sequences of '/'-separated segments: refs/heads/x is                    *)
(* <<"refs", "heads", "x">>.  Tree entry names and file paths are          *)
(* sequences of character codes, so that splitting on '/' and the          *)
(* lexicographic order of paths are computed, not assumed.                 *)
(*                                                                         *)
(* An outcome is a record with a status: "ok", "NotFound", "BadRequest"    *)
(* (the two werkzeug exceptions the handlers raise) or "ServerError" (any  *)
(* other exception escaping the handler: a 500).                           *)
(***************************************************************************)
EXTENDS Integers, Sequences, FiniteSets, TLC

\* pc is where the request being served stands; temp_files are the temporary
\* files that exist on disk or are held open; filesystem is the directories
\* of the host, RESTFULGIT_REPO_BASE_PATH among them; MAGIC is the result
\* buffer of the libmagic handle of porcelain/routes.py
VARIABLES objects, refs, request, response, pc, temp_files, filesystem, MAGIC

vars == <<objects, refs, request, response, pc, temp_files, filesystem, MAGIC>>

----------------------------------------------------------------------------
(* Bounds of the model *)

\* longest chain of annotated tags pointing at tags
MaxTagDepth == 3

----------------------------------------------------------------------------
(* The object store *)

NoOid == "none"

Commit(tree, parents, time) ==
    [type |-> "commit", tree |-> tree, parents |-> parents, time |-> time]

Tree(entries) == [type |-> "tree", entries |-> entries]

Blob(lines, size) == [type |-> "blob", lines |-> lines, size |-> size]

Tag(target) == [type |-> "tag", target |-> target]

Ok(oid) == [status |-> "ok", oid |-> oid]

Fail(kind) == [status |-> kind, oid |-> NoOid]

NoRequest == [op |-> "none"]

NoResponse == [status |-> "none"]

\* a direct reference and a symbolic one (HEAD)
Direct(oid) == [symbolic |-> FALSE, target |-> oid]

Symbolic(name) == [symbolic |-> TRUE, target |-> name]

----------------------------------------------------------------------------
(* The host: directories by absolute path, a path being the sequence of    *)
(* its names and a name a sequence of character codes.  A directory is a   *)
(* plain one ("dir") or holds a Git repository's files ("gitdir").         *)

\* RESTFULGIT_REPO_BASE_PATH: /srv
BasePath == << <<115, 114, 118>> >>

\* the name "repo"
RepoName == <<114, 101, 112, 111>>

\* the base path with the one bare repository "repo" in it
OneRepository ==
    [p \in {<<>>, BasePath, BasePath \o <<RepoName>>} |->
        IF p = BasePath \o <<RepoName>> THEN "gitdir" ELSE "dir"]

\* the libmagic handle before its first use
NoMimeType == "none"

----------------------------------------------------------------------------
(* pygit2's revparse_single and peel, as get_commit_for_refspec uses them *)

\* git_reference_lookup_resolved: follow symbolic references to an oid
RECURSIVE ResolveRef(_, _, _)
ResolveRef(rs, name, fuel) ==
    IF name \notin DOMAIN rs \/ fuel = 0 THEN NoOid
    ELSE IF rs[name].symbolic THEN ResolveRef(rs, rs[name].target, fuel - 1)
    ELSE rs[name].target

\* the mutant: branches looked up before tags
RefFormatsBranchFirst(name) ==
    << name,
       <<"refs">> \o name,
       <<"refs", "heads">> \o name,
       <<"refs", "tags">> \o name,
       <<"refs", "remotes">> \o name,
       <<"refs", "remotes">> \o name \o <<"HEAD">> >>

\* the names git_reference_dwim tries for a short name, in order
RefFormats(name) ==
    << name,
       <<"refs">> \o name,
       <<"refs", "tags">> \o name,
       <<"refs", "heads">> \o name,
       <<"refs", "remotes">> \o name,
       <<"refs", "remotes">> \o name \o <<"HEAD">> >>

Min(S) == CHOOSE x \in S : \A y \in S : x <= y

\* the mutant: a branch of the name wins over every other reading
revparse_single_branch(objs, rs, name) ==
    IF ResolveRef(rs, <<"refs", "heads">> \o name, 5) # NoOid
    THEN [found |-> TRUE, oid |-> ResolveRef(rs, <<"refs", "heads">> \o name, 5)]
    ELSE IF Len(name) = 1 /\ name[1] \in DOMAIN objs
    THEN [found |-> TRUE, oid |-> name[1]]
    ELSE [found |-> FALSE, oid |-> NoOid]

\* repo.revparse_single(spec): a full object id first, then the references
revparse_single(objs, rs, name) ==
    IF Len(name) = 1 /\ name[1] \in DOMAIN objs
    THEN [found |-> TRUE, oid |-> name[1]]
    ELSE LET fmts == RefFormats(name)
             hits == {i \in 1..Len(fmts) : ResolveRef(rs, fmts[i], 5) # NoOid}
         IN  IF hits = {} THEN [found |-> FALSE, oid |-> NoOid]
             ELSE [found |-> TRUE, oid |-> ResolveRef(rs, fmts[Min(hits)], 5)]

\* Object.peel(GIT_OBJ_COMMIT): follow tag targets; NoOid when the chain
\* does not end in a commit (pygit2 raises GitError, not KeyError)
RECURSIVE peel_to_commit(_, _)
peel_to_commit(objs, oid) ==
    IF oid \notin DOMAIN objs THEN NoOid
    ELSE IF objs[oid].type = "tag" THEN peel_to_commit(objs, objs[oid].target)
    ELSE IF objs[oid].type = "commit" THEN oid
    ELSE NoOid

\* porcelain get_commit_for_refspec: only a tag is peeled; KeyError -> NotFound
get_commit_for_refspec(objs, rs, name) ==
    LET r == revparse_single(objs, rs, name)
    IN  IF ~r.found THEN Fail("NotFound")
        ELSE IF objs[r.oid].type = "tag"
             THEN IF peel_to_commit(objs, r.oid) = NoOid
                  THEN Fail("ServerError")
                  ELSE Ok(peel_to_commit(objs, r.oid))
        ELSE Ok(r.oid)

----------------------------------------------------------------------------
(* plumbing: get_tree *)

RECURSIVE get_tree(_, _)
get_tree(objs, sha) ==
    IF sha \notin DOMAIN objs THEN Fail("NotFound")
    ELSE LET obj == objs[sha]
         IN  IF obj.type = "tree" THEN Ok(sha)
             ELSE IF obj.type = "commit" THEN Ok(obj.tree)
             ELSE IF obj.type = "tag"
                  THEN IF obj.target \notin DOMAIN objs THEN Fail("ServerError")
                       ELSE LET t == objs[obj.target]
                            IN  IF t.type = "tag" THEN get_tree(objs, t.target)
                                ELSE IF t.type = "commit" THEN Ok(t.tree)
                                \* a Tree or Blob has no attribute 'tree'
                                ELSE Fail("ServerError")
             ELSE Fail("NotFound")

----------------------------------------------------------------------------
(* The resolver specification: a repository with two commits, a chain of   *)
(* annotated tags over a commit, a tree or a blob, and references x, y and *)
(* HEAD.                                                                   *)

TagOids == <<"g1", "g2", "g3", "g4", "g5">>

TagChainOids == {TagOids[k] : k \in 1..MaxTagDepth}

ResolverObjects(base) ==
    [o \in {"c1", "c2", "t1", "t2", "b1"} \cup TagChainOids |->
        CASE o = "c1" -> Commit("t1", <<>>, 1)
          [] o = "c2" -> Commit("t2", <<"c1">>, 2)
          [] o = "t1" -> Tree(<<>>)
          [] o = "t2" -> Tree(<<>>)
          [] o = "b1" -> Blob(<<>>, 0)
          [] o = "g1" -> Tag(base)
          [] OTHER -> Tag(TagOids[(CHOOSE k \in 1..MaxTagDepth : TagOids[k] = o) - 1])]

HeadsX == <<"refs", "heads", "x">>
TagsX == <<"refs", "tags", "x">>
HeadsY == <<"refs", "heads", "y">>

\* refs/heads/x, refs/tags/x, refs/heads/y present or not (NoOid); HEAD -> refs/heads/x
ResolverRefs(hx, tx, hy) ==
    [n \in {<<"HEAD">>} \cup (IF hx = NoOid THEN {} ELSE {HeadsX})
                        \cup (IF tx = NoOid THEN {} ELSE {TagsX})
                        \cup (IF hy = NoOid THEN {} ELSE {HeadsY}) |->
        IF n = <<"HEAD">> THEN Symbolic(HeadsX)
        ELSE IF n = HeadsX THEN Direct(hx)
        ELSE IF n = TagsX THEN Direct(tx)
        ELSE Direct(hy)]

Refspecs ==
    {<<"x">>, <<"y">>, <<"z">>, <<"HEAD">>, <<"heads", "x">>, <<"tags", "x">>, <<"ffff">>}
        \cup {<<o>> : o \in DOMAIN objects}

Init ==
    /\ \E base \in {"c1", "t1", "b1"} : objects = ResolverObjects(base)
    /\ \E hx \in {NoOid, "c1", "c2"}, tx \in {NoOid, "c1", "c2"} \cup TagChainOids,
          hy \in {NoOid, "c2"} :
            refs = ResolverRefs(hx, tx, hy)
    /\ request = NoRequest
    /\ response = NoResponse
    /\ pc = "idle"
    /\ temp_files = {}
    /\ filesystem = OneRepository
    /\ MAGIC = NoMimeType

GetCommitForRefspec ==
    \E name \in Refspecs :
        /\ request' = [op |-> "get_commit_for_refspec", name |-> name]
        /\ response' = get_commit_for_refspec(objects, refs, name)
        /\ UNCHANGED <<objects, refs, pc, temp_files, filesystem, MAGIC>>

GetTree ==
    \E sha \in DOMAIN objects \cup {"ffff"} :
        /\ request' = [op |-> "get_tree", sha |-> sha]
        /\ response' = get_tree(objects, sha)
        /\ UNCHANGED <<objects, refs, pc, temp_files, filesystem, MAGIC>>

Next == GetCommitForRefspec \/ GetTree

Spec == Init /\ [][Next]_vars

----------------------------------------------------------------------------
(* Claims about the object resolver (checked under Spec) *)

BranchRef(name) == <<"refs", "heads">> \o name

TagRef(name) == <<"refs", "tags">> \o name

IsRefspecCall == request.op = "get_commit_for_refspec"

\* a one-segment name that is no reference name as given or under refs/
ShortName(name) ==
    /\ Len(name) = 1
    /\ name \notin DOMAIN refs
    /\ (<<"refs">> \o name) \notin DOMAIN refs

\* what reading the name as a raw SHA gives
AsRawSha(name) ==
    IF name[1] \notin DOMAIN objects THEN Fail("NotFound")
    ELSE IF objects[name[1]].type = "tag"
         THEN IF peel_to_commit(objects, name[1]) = NoOid THEN Fail("ServerError")
              ELSE Ok(peel_to_commit(objects, name[1]))
    ELSE Ok(name[1])

RECURSIVE ReferencedTree(_, _)
ReferencedTree(objs, sha) ==
    IF sha \notin DOMAIN objs THEN NoOid
    ELSE IF objs[sha].type = "tree" THEN sha
    ELSE IF objs[sha].type = "commit" THEN objs[sha].tree
    ELSE IF objs[sha].type = "tag" THEN ReferencedTree(objs, objs[sha].target)
    ELSE NoOid

\* C3: get_tree on the SHA of a tree, a commit or a tag returns the referenced
\* tree, following tag targets until a tree or a commit is reached (a tag
\* whose target is directly a tree included).
C3_GetTreePeelsToTree ==
    (request.op = "get_tree" /\ ReferencedTree(objects, request.sha) # NoOid) =>
        response = Ok(ReferencedTree(objects, request.sha))

\* C4: get_commit_for_refspec returns a commit or fails with NotFound.
C4_CommitOrNotFound ==
    IsRefspecCall =>
        \/ response.status = "NotFound"
        \/ response.status = "ok" /\ objects[response.oid].type = "commit"

----------------------------------------------------------------------------
(* The branch-unique-commit calculator *)

\* commits of the history DAG
MaxCommits == 4

Range(s) == {s[i] : i \in DOMAIN s}

SetToSeq(S) ==
    CHOOSE s \in [1..Cardinality(S) -> S] : Range(s) = S

\* commits reachable from c through parent links, c included
RECURSIVE Reach(_, _)
Reach(objs, c) ==
    {c} \cup UNION {Reach(objs, p) : p \in Range(objs[c].parents)}

ReachAll(objs, S) == UNION {Reach(objs, c) : c \in S}

\* libgit2 git_merge_base: the best common ancestors of two commits, of
\* which repo.merge_base returns one (KeyError when there is none)
BestCommonAncestors(objs, a, b) ==
    LET common == Reach(objs, a) \cap Reach(objs, b)
    IN  {x \in common : \A y \in common \ {x} : x \notin Reach(objs, y)}

\* _get_common_ancestor_or_none: the outcomes merge_base can give
CommonAncestorOrNone(objs, a, b) ==
    IF BestCommonAncestors(objs, a, b) = {} THEN {NoOid}
    ELSE BestCommonAncestors(objs, a, b)

\* the mutant: the main ref is not left out of the other refs
OtherNonsymbolicRefsWithMain(rs, main_ref_name) ==
    {n \in DOMAIN rs : ~rs[n].symbolic}

\* _get_other_nonsymbolic_refs
OtherNonsymbolicRefs(rs, main_ref_name) ==
    {n \in DOMAIN rs : n # main_ref_name /\ ~rs[n].symbolic}

\* repo.walk(tip, GIT_SORT_TOPOLOGICAL | GIT_SORT_REVERSE) over the commits
\* of S: every order that puts a commit after its parents
RECURSIVE TopologicalReverse(_, _)
TopologicalReverse(objs, S) ==
    IF S = {} THEN {<<>>}
    ELSE UNION { {<<c>> \o t : t \in TopologicalReverse(objs, S \ {c})} :
                 c \in {x \in S : Range(objs[x].parents) \cap S = {}} }

Reverse(s) == [i \in DOMAIN s |-> s[Len(s) + 1 - i]]

\* the walk of GIT_SORT_TIME over the commits of S: the commit of the latest
\* time among those queued comes next, and its parents are queued then
RECURSIVE TimeWalk(_, _, _, _)
TimeWalk(objs, S, queue, seen) ==
    IF queue = {} THEN {<<>>}
    ELSE UNION { {<<c>> \o t :
                    t \in TimeWalk(objs, S,
                                   (queue \ {c}) \cup
                                       ((Range(objs[c].parents) \cap S) \ seen),
                                   seen \cup (Range(objs[c].parents) \cap S))} :
                 c \in {x \in queue : \A y \in queue : objs[x].time >= objs[y].time} }

\* the mutant: the time walk without GIT_SORT_REVERSE
TimeNewestFirst(objs, S) ==
    LET tips == {x \in S : \A y \in S : x \notin Range(objs[y].parents)}
    IN  TimeWalk(objs, S, tips, tips)

\* repo.walk(tip, GIT_SORT_TIME | GIT_SORT_REVERSE): the time walk from the
\* tip, the commit of S that is no parent within S, last commit first
TimeReverse(objs, S) ==
    LET tips == {x \in S : \A y \in S : x \notin Range(objs[y].parents)}
    IN  {Reverse(w) : w \in TimeWalk(objs, S, tips, tips)}

\* the mutant: hide() leaves the hidden commit itself in the walk
WalkHidingProperAncestors(objs, tip, hidden, sort) ==
    LET shown == Reach(objs, tip) \ (ReachAll(objs, hidden) \ hidden)
    IN  IF sort = "chronological" THEN TimeReverse(objs, shown)
        ELSE TopologicalReverse(objs, shown)

\* the walker after walker.hide(ancestor) for every ancestor in hidden
Walk(objs, tip, hidden, sort) ==
    LET shown == Reach(objs, tip) \ ReachAll(objs, hidden)
    IN  IF sort = "chronological" THEN TimeReverse(objs, shown)
        ELSE TopologicalReverse(objs, shown)

\* the sets common_ancestor_oids can be: one merge base (or None, discarded)
\* for each of the other refs
RECURSIVE CommonAncestorChoices(_, _, _, _)
CommonAncestorChoices(objs, rs, tip, others) ==
    IF others = {} THEN {{}}
    ELSE LET n == CHOOSE x \in others : TRUE
             rest == CommonAncestorChoices(objs, rs, tip, others \ {n})
         IN  {(H \cup {a}) \ {NoOid} :
                 H \in rest, a \in CommonAncestorOrNone(objs, tip, rs[n].target)}

\* get_commits_unique_to_branch: the walks it can return, as the route lists them
get_commits_unique_to_branch(objs, rs, branch_name, sort) ==
    UNION {Walk(objs, rs[branch_name].target, common_ancestor_oids, sort) :
             common_ancestor_oids \in
                 CommonAncestorChoices(objs, rs, rs[branch_name].target,
                                       OtherNonsymbolicRefs(rs, branch_name))}

CommitOids == <<"k1", "k2", "k3", "k4", "k5", "k6">>

CommitIds == 1..MaxCommits

\* parents of commit i are at most two earlier commits
ParentChoices ==
    {par \in [CommitIds -> SUBSET CommitIds] :
        \A i \in CommitIds : par[i] \subseteq 1..(i - 1) /\ Cardinality(par[i]) <= 2}

HistoryObjects(par) ==
    [o \in {CommitOids[i] : i \in CommitIds} \cup {"t1"} |->
        IF o = "t1" THEN Tree(<<>>)
        ELSE LET i == CHOOSE j \in CommitIds : CommitOids[j] = o
             IN  Commit("t1", SetToSeq({CommitOids[p] : p \in par[i]}), i)]

HeadsMain == <<"refs", "heads", "main">>
HeadsOther == <<"refs", "heads", "other">>
TagsV == <<"refs", "tags", "v">>

\* branch main at the newest commit, optional branch other and lightweight
\* tag v anywhere; HEAD -> main
HistoryRefs(m, o, v) ==
    [n \in {<<"HEAD">>, HeadsMain} \cup (IF o = NoOid THEN {} ELSE {HeadsOther})
                                   \cup (IF v = NoOid THEN {} ELSE {TagsV}) |->
        IF n = <<"HEAD">> THEN Symbolic(HeadsMain)
        ELSE IF n = HeadsMain THEN Direct(m)
        ELSE IF n = HeadsOther THEN Direct(o)
        ELSE Direct(v)]

InitHistory ==
    /\ \E par \in ParentChoices : objects = HistoryObjects(par)
    /\ \E m \in {CommitOids[MaxCommits]},
          o \in {CommitOids[i] : i \in CommitIds} \cup {NoOid},
          v \in {CommitOids[i] : i \in CommitIds} \cup {NoOid} :
            refs = HistoryRefs(m, o, v)
    \* no unreferenced commits: the code reaches commits only from refs
    /\ ReachAll(objects, {refs[n].target : n \in DOMAIN refs \ {<<"HEAD">>}})
          = {CommitOids[i] : i \in CommitIds}
    /\ request = NoRequest
    /\ response = NoResponse
    /\ pc = "idle"
    /\ temp_files = {}
    /\ filesystem = OneRepository
    /\ MAGIC = NoMimeType

\* the route /branches/<branch_name>/unique-commits/sorted/<sort>/
GetCommitsUniqueToBranch ==
    \E branch_name \in {"main", "other", "gone"},
       sort \in {"topological", "chronological"} :
        LET ref_name == <<"refs", "heads", branch_name>>
        IN  /\ request' = [op |-> "get_commits_unique_to_branch",
                           branch |-> ref_name, sort |-> sort]
            /\ IF ref_name \notin DOMAIN refs
               THEN response' = [status |-> "NotFound", commits |-> <<>>]
               ELSE \E commits \in get_commits_unique_to_branch(
                                       objects, refs, ref_name, sort) :
                      response' = [status |-> "ok", commits |-> commits]
            /\ UNCHANGED <<objects, refs, pc, temp_files, filesystem, MAGIC>>

NextHistory == GetCommitsUniqueToBranch

SpecHistory == InitHistory /\ [][NextHistory]_vars

----------------------------------------------------------------------------
(* Claims about the branch-unique-commit calculator (under SpecHistory) *)

IsUniqueCall ==
    request.op = "get_commits_unique_to_branch" /\ response.status = "ok"

OtherRefTargets ==
    {refs[n].target : n \in {r \in DOMAIN refs : r # request.branch /\ ~refs[r].symbolic}}

HasSingleMergeBases ==
    \A t \in OtherRefTargets :
        Cardinality(BestCommonAncestors(objects, refs[request.branch].target, t)) <= 1

\* C2: the unique commits are exactly those reachable from the branch tip and
\* from the target of no other non-symbolic ref, for every commit DAG.
C2_UniqueIsReachableDifference ==
    IsUniqueCall =>
        Range(response.commits) =
            Reach(objects, refs[request.branch].target) \ ReachAll(objects, OtherRefTargets)

----------------------------------------------------------------------------
(* Trees: entry names and paths are sequences of character codes *)

\* '/'
Slash == 47

GIT_MODE_SUBMODULE == 57344

\* 0o040000, 0o100644 and 0o100755
ModeTree == 16384
ModeFile == 33188
ModeExecutable == 33261

\* entries of a tree, at most
MaxEntries == 3

\* segments of a requested path, at most
MaxSegments == 3

Entry(name, id, filemode) == [name |-> name, id |-> id, filemode |-> filemode]

\* unicode string comparison: a < b, code unit by code unit
LexLess(a, b) ==
    \E at \in 1..(Len(a) + 1) :
        /\ at <= Len(b)
        /\ \A before \in 1..(at - 1) : a[before] = b[before]
        /\ (IF at = Len(a) + 1 THEN TRUE ELSE a[at] < b[at])

\* oct(n) without its base-indicating leading 0: the octal digits of n
RECURSIVE OctDigits(_)
OctDigits(n) == IF n = 0 THEN <<>> ELSE Append(OctDigits(n \div 8), n % 8)

\* str.zfill(width)
RECURSIVE ZFill(_, _)
ZFill(digits, width) ==
    IF Len(digits) >= width THEN digits ELSE ZFill(<<0>> \o digits, width)

\* the mutant: the submodule entry carries its accumulated path
SubmoduleEntryDataWithPath(path, entry) ==
    [path |-> path \o entry.name, sha |-> entry.id, type |-> "submodule",
     size |-> -1, mode |-> ZFill(OctDigits(entry.filemode), 6)]

\* entry_data of a submodule entry (no size, no url): the bare entry name
SubmoduleEntryData(path, entry) ==
    [path |-> entry.name, sha |-> entry.id, type |-> "submodule",
     size |-> -1, mode |-> ZFill(OctDigits(entry.filemode), 6)]

\* _tree_entries: size -1 stands for "no size key"
RECURSIVE tree_entries(_, _, _, _)
tree_entries(objs, tree, recursive, path) ==
    LET entries == objs[tree].entries
        EntryData(entry) ==
            IF entry.filemode = GIT_MODE_SUBMODULE
            THEN <<SubmoduleEntryData(path, entry)>>
            ELSE IF objs[entry.id].type = "blob"
            THEN <<[path |-> path \o entry.name, sha |-> entry.id, type |-> "blob",
                    size |-> objs[entry.id].size,
                    mode |-> ZFill(OctDigits(entry.filemode), 6)]>>
            ELSE (IF recursive
                  THEN tree_entries(objs, entry.id, TRUE, path \o entry.name \o <<Slash>>)
                  ELSE <<>>)
                 \o <<[path |-> path \o entry.name, sha |-> entry.id, type |-> "tree",
                       size |-> -1,
                       mode |-> ZFill(OctDigits(entry.filemode), 6)]>>
        RECURSIVE Each(_)
        Each(i) == IF i > Len(entries) THEN <<>>
                   ELSE EntryData(entries[i]) \o Each(i + 1)
    IN  Each(1)

\* list.sort(key=path): a stable sort, ascending
RECURSIVE SortByPath(_)
SortByPath(list) ==
    IF list = <<>> THEN <<>>
    ELSE LET sorted == SortByPath(SubSeq(list, 1, Len(list) - 1))
             last == list[Len(list)]
             \* after every element that is not greater
             k == Cardinality({i \in 1..Len(sorted) : ~LexLess(last.path, sorted[i].path)})
         IN  SubSeq(sorted, 1, k) \o <<last>> \o SubSeq(sorted, k + 1, Len(sorted))

\* the mutant: the flattened list is returned as collected
convert_tree_unsorted(objs, tree, recursive) ==
    [sha |-> tree, tree |-> tree_entries(objs, tree, recursive, <<>>)]

convert_tree(objs, tree, recursive) ==
    [sha |-> tree, tree |-> SortByPath(tree_entries(objs, tree, recursive, <<>>))]

\* the trees t0 (root), t1, t2 and what their entries can be:
\* names "a", "a.", "b", "s"
RootCandidates ==
    { Entry(<<97>>, "t1", ModeTree), Entry(<<97, 46>>, "b1", ModeFile),
      Entry(<<98>>, "b2", ModeExecutable), Entry(<<115>>, "s1", GIT_MODE_SUBMODULE) }

DirCandidates ==
    { Entry(<<97>>, "t2", ModeTree), Entry(<<98>>, "b1", ModeFile),
      Entry(<<115>>, "s1", GIT_MODE_SUBMODULE) }

LeafCandidates == { Entry(<<97>>, "b2", ModeFile) }

\* the lists of at most max distinct candidates, in any order
EntrySeqs(candidates, max) ==
    UNION { {s \in [1..k -> candidates] : \A i, j \in 1..k : s[i] = s[j] => i = j} :
            k \in 0..max }

HasEntryFor(entries, id) == \E i \in DOMAIN entries : entries[i].id = id

TreeObjects(e0, e1, e2) ==
    [o \in {"c1", "t0", "t1", "t2", "b1", "b2"} |->
        CASE o = "c1" -> Commit("t0", <<>>, 1)
          [] o = "t0" -> Tree(e0)
          [] o = "t1" -> Tree(e1)
          [] o = "t2" -> Tree(e2)
          [] o = "b1" -> Blob(<<>>, 1)
          [] o = "b2" -> Blob(<<>>, 2)]

InitTrees ==
    /\ \E e0 \in EntrySeqs(RootCandidates, MaxEntries),
          e1 \in EntrySeqs(DirCandidates, MaxEntries),
          e2 \in EntrySeqs(LeafCandidates, MaxEntries) :
            \* a tree no entry refers to is left empty
            /\ HasEntryFor(e0, "t1") \/ e1 = <<>>
            /\ HasEntryFor(e1, "t2") \/ e2 = <<>>
            /\ objects = TreeObjects(e0, e1, e2)
    /\ refs = [n \in {HeadsMain} |-> Direct("c1")]
    /\ request = NoRequest
    /\ response = NoResponse
    /\ pc = "idle"
    /\ temp_files = {}
    /\ filesystem = OneRepository
    /\ MAGIC = NoMimeType

\* plumbing get_tree route: convert_tree(repo_key, repo, tree, recursive)
ConvertTree ==
    \E tree \in {"t0", "t1", "t2"}, recursive \in BOOLEAN :
        /\ request' = [op |-> "convert_tree", tree |-> tree, recursive |-> recursive]
        /\ response' = convert_tree(objects, tree, recursive)
        /\ UNCHANGED <<objects, refs, pc, temp_files, filesystem, MAGIC>>

NextTrees == ConvertTree

SpecTrees == InitTrees /\ [][NextTrees]_vars

----------------------------------------------------------------------------
(* Claims about the tree flattener (under SpecTrees) *)

IsConvertTreeCall == request.op = "convert_tree"

IsDepth1(path) == \A i \in DOMAIN path : path[i] # Slash

\* C6: the depth-1 entries of the recursive flattening are the entries of the
\* non-recursive flattening (same path, sha, type, mode and size).
C6_Depth1OfRecursiveIsNonRecursive ==
    (IsConvertTreeCall /\ request.recursive) =>
        {e \in Range(response.tree) : IsDepth1(e.path)}
            = Range(convert_tree(objects, request.tree, FALSE).tree)

\* C7: convert_tree returns its entries sorted ascending by the full path
\* string, recursive or not, whatever the order of the trees' entries.
C7_SortedByFullPath ==
    IsConvertTreeCall =>
        \A i, j \in DOMAIN response.tree :
            i < j => ~LexLess(response.tree[j].path, response.tree[i].path)

\* a recursive listing where "a." sorts between the directory "a" and its
\* child "a/b", from a root tree that lists "a." first
C7_Witness ==
    /\ IsConvertTreeCall /\ request.recursive /\ request.tree = "t0"
    /\ Len(objects["t0"].entries) >= 2
    /\ objects["t0"].entries[1].name = <<97, 46>>
    /\ \E i \in DOMAIN response.tree :
          /\ i + 2 \in DOMAIN response.tree
          /\ response.tree[i].path = <<97>>
          /\ response.tree[i + 1].path = <<97, 46>>
          /\ response.tree[i + 2].path = <<97, Slash, 98>>

----------------------------------------------------------------------------
(* Path resolution: get_object_from_path *)

\* path.split("/")
RECURSIVE Split(_)
Split(path) ==
    LET slashes == {i \in DOMAIN path : path[i] = Slash}
    IN  IF slashes = {} THEN <<path>>
        ELSE <<SubSeq(path, 1, Min(slashes) - 1)>>
                 \o Split(SubSeq(path, Min(slashes) + 1, Len(path)))

\* the mutant: a name the tree lacks finds the tree's first entry
EntryIdOrFirst(tree, path_seg) ==
    LET found == {i \in DOMAIN tree.entries : tree.entries[i].name = path_seg}
    IN  IF found = {} THEN (IF tree.entries = <<>> THEN NoOid ELSE tree.entries[1].id)
        ELSE tree.entries[Min(found)].id

\* ctree[path_seg].id: the id of the entry of that name (KeyError: NoOid)
EntryId(tree, path_seg) ==
    LET found == {i \in DOMAIN tree.entries : tree.entries[i].name = path_seg}
    IN  IF found = {} THEN NoOid ELSE tree.entries[Min(found)].id

\* the loop body of get_object_from_path from segment i on
RECURSIVE WalkSegments(_, _, _, _, _)
WalkSegments(objs, ctree, path_segments, i, lenient) ==
    IF i > Len(path_segments) THEN Ok(ctree)
    ELSE IF objs[ctree].type # "tree" THEN Fail("NotFound")
    ELSE IF lenient /\ path_segments[i] = <<>> /\ i = Len(path_segments)
         THEN WalkSegments(objs, ctree, path_segments, i + 1, lenient)
    ELSE LET id == EntryId(objs[ctree], path_segments[i])
         IN  IF id = NoOid \/ id \notin DOMAIN objs THEN Fail("NotFound")
             ELSE WalkSegments(objs, id, path_segments, i + 1, lenient)

\* the mutant: no allowance for a trailing slash
get_object_from_path_strict(objs, tree, path) ==
    WalkSegments(objs, tree, Split(path), 1, FALSE)

get_object_from_path(objs, tree, path) ==
    WalkSegments(objs, tree, Split(path), 1, TRUE)

\* "/".join(segments)
RECURSIVE Join(_)
Join(segments) ==
    IF Len(segments) = 1 THEN segments[1]
    ELSE segments[1] \o <<Slash>> \o Join(Tail(segments))

\* requested paths: up to MaxSegments segments "a", "b" or ""
PathSegments == {<<97>>, <<98>>, <<>>}

RequestPaths ==
    {<<>>} \cup UNION { {Join(s) : s \in [1..k -> PathSegments]} : k \in 1..MaxSegments }

NamesAscending(entries) ==
    \A i, j \in DOMAIN entries : i < j => LexLess(entries[i].name, entries[j].name)

InitPaths ==
    /\ \E e0 \in {e \in EntrySeqs(RootCandidates, MaxEntries) : NamesAscending(e)},
          e1 \in {e \in EntrySeqs(DirCandidates, MaxEntries) : NamesAscending(e)},
          e2 \in {e \in EntrySeqs(LeafCandidates, MaxEntries) : NamesAscending(e)} :
            /\ HasEntryFor(e0, "t1") \/ e1 = <<>>
            /\ HasEntryFor(e1, "t2") \/ e2 = <<>>
            /\ objects = TreeObjects(e0, e1, e2)
    /\ refs = [n \in {HeadsMain} |-> Direct("c1")]
    /\ request = NoRequest
    /\ response = NoResponse
    /\ pc = "idle"
    /\ temp_files = {}
    /\ filesystem = OneRepository
    /\ MAGIC = NoMimeType

\* get_object_from_path(repo, tree, file_path) on the commit's root tree
GetObjectFromPath ==
    \E path \in RequestPaths :
        /\ request' = [op |-> "get_object_from_path", tree |-> "t0", path |-> path]
        /\ response' = get_object_from_path(objects, "t0", path)
        /\ UNCHANGED <<objects, refs, pc, temp_files, filesystem, MAGIC>>

NextPaths == GetObjectFromPath

SpecPaths == InitPaths /\ [][NextPaths]_vars

----------------------------------------------------------------------------
(* Claims about path resolution (under SpecPaths) *)

IsPathCall == request.op = "get_object_from_path"

EndsWithSlash(path) == path # <<>> /\ path[Len(path)] = Slash

WithoutLast(path) == SubSeq(path, 1, Len(path) - 1)

\* the outcome for the requested path less its final character
OutcomeWithoutSlash ==
    get_object_from_path(objects, request.tree, WithoutLast(request.path))

\* C5 as stated: whenever path p resolves to an object (a tree or a blob),
\* p + '/' resolves to the same object.
C5_TrailingSlashIgnored ==
    (IsPathCall /\ EndsWithSlash(request.path) /\ OutcomeWithoutSlash.status = "ok") =>
        response = OutcomeWithoutSlash

\* C5 amended: whenever a non-empty path p that does not end in '/' resolves
\* to a tree, p + '/' resolves to the same tree; when p resolves to a blob,
\* p + '/' fails with NotFound.
C5_TrailingSlashOnDirectory ==
    (/\ IsPathCall /\ EndsWithSlash(request.path)
     /\ WithoutLast(request.path) # <<>>
     /\ ~EndsWithSlash(WithoutLast(request.path))
     /\ OutcomeWithoutSlash.status = "ok") =>
        IF objects[OutcomeWithoutSlash.oid].type = "tree"
        THEN response = OutcomeWithoutSlash
        ELSE response = Fail("NotFound")

\* "a/a/" resolved to the directory a/a
C5_Witness ==
    /\ IsPathCall
    /\ request.path = <<97, Slash, 97, Slash>>
    /\ response = Ok("t2")

----------------------------------------------------------------------------
(* The blame endpoint *)

\* lines of the blamed file, at most
MaxLines == 2

\* a line of a blob as data.splitlines() gives it: its bytes, and the
\* commit and path git attributes it to
Line(text, commit, path) == [text |-> text, commit |-> commit, path |-> path]

\* a query argument: not given, not an integer, or an integer
Absent == [kind |-> "absent", value |-> 0]

NotAnInteger == [kind |-> "text", value |-> 0]

Integer(n) == [kind |-> "int", value |-> n]

BlameFail(kind) == [status |-> kind, lines |-> <<>>, commits |-> <<>>]

\* bytes.decode(): fails on a byte outside ASCII
Decodable(text) == \A i \in DOMAIN text : text[i] < 128

\* repo.blame(path, newest_commit, oldest_commit, min_line, max_line) then
\* blame.for_line(line_num): a line older than oldest_commit is blamed on
\* oldest_commit, the boundary of the walk
for_line(objs, file_lines, oldest_commit, line_num) ==
    LET origin == file_lines[line_num].commit
    IN  [final_commit_id |->
             IF oldest_commit # NoOid /\ origin \in Reach(objs, oldest_commit)
             THEN oldest_commit ELSE origin,
         orig_path |-> file_lines[line_num].path]

\* plumbing convert_commit, less the URLs and signatures
plumbing_convert_commit(objs, sha) ==
    [sha |-> sha, tree |-> objs[sha].tree, parents |-> objs[sha].parents]

\* the list annotated_lines of convert_blame
annotated_lines(objs, file_lines, oldest_commit, raw_lines, start_line) ==
    [k \in 1..Len(raw_lines) |->
        LET line_num == start_line + k - 1
            hunk == for_line(objs, file_lines, oldest_commit, line_num)
        IN  [commit |-> hunk.final_commit_id, origPath |-> hunk.orig_path,
             lineNum |-> line_num, line |-> raw_lines[k].text]]

\* the mutant: the commits of every line of the file, not of the lines asked for
blame_commit_shas_whole_file(objs, file_lines, oldest_commit, raw_lines, start_line) ==
    {for_line(objs, file_lines, oldest_commit, n).final_commit_id :
        n \in 1..Len(file_lines)}

\* the set commit_shas of convert_blame
blame_commit_shas(objs, file_lines, oldest_commit, raw_lines, start_line) ==
    {for_line(objs, file_lines, oldest_commit, start_line + k - 1).final_commit_id :
        k \in 1..Len(raw_lines)}

convert_blame(objs, file_lines, oldest_commit, raw_lines, start_line) ==
    IF \E k \in 1..Len(raw_lines) : ~Decodable(raw_lines[k].text)
    THEN BlameFail("ServerError")
    ELSE [status |-> "ok",
          lines |-> annotated_lines(objs, file_lines, oldest_commit,
                                    raw_lines, start_line),
          commits |-> [sha \in blame_commit_shas(objs, file_lines, oldest_commit,
                                                 raw_lines, start_line) |->
                          plumbing_convert_commit(objs, sha)]]

\* raw_lines[(min_line - 1):max_line], max_line None when absent
Slice(raw_lines, min_line, max_line) ==
    SubSeq(raw_lines, min_line,
           IF max_line.kind = "absent" \/ max_line.value > Len(raw_lines)
           THEN Len(raw_lines) ELSE max_line.value)

\* the mutant: no firstLine bounds check
FirstLineOutOfBoundsUnchecked(min_line, raw_lines) == FALSE

\* "firstLine out of bounds"
FirstLineOutOfBounds(min_line, raw_lines) == min_line > Len(raw_lines)

\* the part of the route get_blame after the arguments are validated
blame_resolved(objs, rs, req, min_line) ==
    LET newest == get_commit_for_refspec(objs, rs, req.refspec)
    IN  IF req.repo_key # "repo" THEN BlameFail("NotFound")
        ELSE IF newest.status # "ok" THEN BlameFail(newest.status)
        \* a tree or blob has no tree_id
        ELSE IF objs[newest.oid].type # "commit" THEN BlameFail("ServerError")
        ELSE
        LET tree == get_tree(objs, objs[newest.oid].tree)
            git_obj == get_object_from_path(objs, tree.oid, req.path)
        IN  IF tree.status # "ok" THEN BlameFail(tree.status)
            ELSE IF git_obj.status # "ok" THEN BlameFail(git_obj.status)
            ELSE IF objs[git_obj.oid].type # "blob" THEN BlameFail("BadRequest")
            ELSE
            LET raw_lines == objs[git_obj.oid].lines
                oldest == IF req.oldest = <<>> THEN Ok(NoOid)
                          ELSE get_commit_for_refspec(objs, rs, req.oldest)
            IN  IF FirstLineOutOfBounds(min_line, raw_lines)
                THEN BlameFail("BadRequest")
                ELSE IF req.lastLine.kind = "int" /\ req.lastLine.value > Len(raw_lines)
                THEN BlameFail("BadRequest")
                ELSE IF oldest.status # "ok" THEN BlameFail(oldest.status)
                ELSE convert_blame(objs, raw_lines, oldest.oid,
                                   Slice(raw_lines, min_line, req.lastLine), min_line)

\* the mutant: the repository is opened and the file read before the line
\* numbers are looked at
get_blame_opening_first(objs, rs, req) ==
    IF req.repo_key # "repo"
          \/ get_commit_for_refspec(objs, rs, req.refspec).status # "ok"
    THEN BlameFail("NotFound")
    ELSE IF req.firstLine.kind = "text" \/ req.lastLine.kind = "text"
    THEN BlameFail("BadRequest")
    ELSE blame_resolved(objs, rs, req,
                        IF req.firstLine.kind = "absent" THEN 1
                        ELSE req.firstLine.value)

\* the route get_blame
get_blame(objs, rs, req) ==
    LET min_line == IF req.firstLine.kind = "absent" THEN 1 ELSE req.firstLine.value
    IN  IF req.firstLine.kind = "text" THEN BlameFail("BadRequest")
        ELSE IF min_line < 1 THEN BlameFail("BadRequest")
        ELSE IF req.lastLine.kind = "text" THEN BlameFail("BadRequest")
        ELSE IF req.lastLine.kind = "int" /\ req.lastLine.value < 1
        THEN BlameFail("BadRequest")
        ELSE IF req.lastLine.kind = "int" /\ min_line > req.lastLine.value
        THEN BlameFail("BadRequest")
        ELSE blame_resolved(objs, rs, req, min_line)

\* the file "a" of the newest commit: lines first written by c1 or c3, the
\* first one possibly not decodable
FileChoices ==
    UNION { {[i \in 1..n |-> Line(IF bad /\ i = 1 THEN <<255>> ELSE <<120>>,
                                  origin[i], <<97>>)] :
                origin \in [1..n -> {"c1", "c3"}], bad \in BOOLEAN} :
            n \in 0..MaxLines }

\* a history c1 <- c2 <- c3 whose newest tree holds "a": a file, a directory
\* or nothing
BlameObjects(kind, file_lines) ==
    [o \in {"c1", "c2", "c3", "t0", "t1", "b1"} |->
        CASE o = "c1" -> Commit("t1", <<>>, 1)
          [] o = "c2" -> Commit("t1", <<"c1">>, 2)
          [] o = "c3" -> Commit("t0", <<"c2">>, 3)
          [] o = "t0" -> Tree(IF kind = "file" THEN <<Entry(<<97>>, "b1", ModeFile)>>
                              ELSE IF kind = "dir" THEN <<Entry(<<97>>, "t1", ModeTree)>>
                              ELSE <<>>)
          [] o = "t1" -> Tree(<<>>)
          [] o = "b1" -> Blob(file_lines, Len(file_lines))]

TagsOld == <<"refs", "tags", "old">>

\* branch main -> c3 and tag old -> c2, either possibly missing
BlameRefs(main, old) ==
    [n \in (IF main THEN {HeadsMain} ELSE {}) \cup (IF old THEN {TagsOld} ELSE {}) |->
        IF n = HeadsMain THEN Direct("c3") ELSE Direct("c2")]

InitBlame ==
    /\ \/ \E file_lines \in FileChoices, old \in BOOLEAN :
             /\ objects = BlameObjects("file", file_lines)
             /\ refs = BlameRefs(TRUE, old)
       \/ \E kind \in {"dir", "none"} :
             /\ objects = BlameObjects(kind, <<>>)
             /\ refs = BlameRefs(TRUE, TRUE)
       \/ /\ objects = BlameObjects("file", <<>>)
          /\ refs = BlameRefs(FALSE, TRUE)
    /\ request = NoRequest
    /\ response = NoResponse
    /\ pc = "idle"
    /\ temp_files = {}
    /\ filesystem = OneRepository
    /\ MAGIC = NoMimeType

LineArgs == {Absent, NotAnInteger} \cup {Integer(n) : n \in 0..(MaxLines + 1)}

\* GET /repos/<repo_key>/blame/main/a?firstLine=&lastLine=&oldest=
GetBlame ==
    \E repo_key \in {"repo", "missing"}, firstLine \in LineArgs, lastLine \in LineArgs,
       oldest \in {<<>>, <<"old">>} :
        /\ request' = [op |-> "get_blame", repo_key |-> repo_key,
                       refspec |-> <<"main">>, path |-> <<97>>,
                       firstLine |-> firstLine, lastLine |-> lastLine,
                       oldest |-> oldest]
        /\ response' = get_blame(objects, refs, request')
        /\ UNCHANGED <<objects, refs, pc, temp_files, filesystem, MAGIC>>

NextBlame == GetBlame

SpecBlame == InitBlame /\ [][NextBlame]_vars

----------------------------------------------------------------------------
(* Claims about the blame endpoint *)

IsBlameCall == request.op = "get_blame"

\* the repository, the branch and the file of the request all exist
BlamedFileExists ==
    /\ request.repo_key = "repo"
    /\ HeadsMain \in DOMAIN refs
    /\ \E i \in DOMAIN objects["t0"].entries :
          /\ objects["t0"].entries[i].name = request.path
          /\ objects[objects["t0"].entries[i].id].type = "blob"

\* the lines of the file of the request
BlamedLines == objects["b1"].lines

LineCount == Len(BlamedLines)

\* firstLine as the endpoint reads it, 1 when not given
FirstLine == IF request.firstLine.kind = "absent" THEN 1 ELSE request.firstLine.value

\* lastLine as the endpoint reads it, the end of the file when not given
LastLine == IF request.lastLine.kind = "absent" THEN LineCount ELSE request.lastLine.value

OldestResolves == request.oldest = <<>> \/ TagsOld \in DOMAIN refs

\* C8: for every file, of any length, a blame request with firstLine = 1 (the
\* default) and no lastLine succeeds, and its lines list is as long as the
\* file, with lineNum running 1..N in order
C8_DefaultRangeReturnsWholeFile ==
    (/\ IsBlameCall
     /\ BlamedFileExists
     /\ request.firstLine \in {Absent, Integer(1)}
     /\ request.lastLine = Absent
     /\ request.oldest = <<>>
     /\ \A i \in 1..LineCount : Decodable(BlamedLines[i].text))
    => /\ response.status = "ok"
       /\ Len(response.lines) = LineCount
       /\ \A i \in 1..LineCount : response.lines[i].lineNum = i

\* C9: the blame endpoint answers BadRequest when firstLine or lastLine is not
\* an integer, when either is below 1, when firstLine > lastLine, and when
\* either exceeds the line count of the file; every range with
\* 1 <= firstLine <= lastLine <= line count on an existing file is accepted,
\* and answered when its lines decode and the oldest refspec resolves
C9_RangeValidation ==
    IsBlameCall =>
        /\ (request.firstLine.kind = "text" \/ request.lastLine.kind = "text")
               => response.status = "BadRequest"
        /\ (\/ request.firstLine.kind = "int" /\ request.firstLine.value < 1
            \/ request.lastLine.kind = "int" /\ request.lastLine.value < 1)
               => response.status = "BadRequest"
        /\ (/\ request.firstLine.kind # "text"
            /\ request.lastLine.kind = "int"
            /\ FirstLine > request.lastLine.value)
               => response.status = "BadRequest"
        /\ (/\ BlamedFileExists
            /\ \/ request.firstLine.kind # "text" /\ FirstLine > LineCount
               \/ request.lastLine.kind = "int" /\ request.lastLine.value > LineCount)
               => response.status = "BadRequest"
        /\ (/\ BlamedFileExists
            /\ request.firstLine.kind # "text"
            /\ request.lastLine.kind # "text"
            /\ 1 <= FirstLine
            /\ FirstLine <= LastLine
            /\ LastLine <= LineCount)
               => /\ response.status # "BadRequest"
                  /\ (/\ OldestResolves
                      /\ \A i \in FirstLine..LastLine : Decodable(BlamedLines[i].text))
                         => /\ response.status = "ok"
                            /\ Len(response.lines) = LastLine - FirstLine + 1

\* a proper inner range of a file is answered
C9_Witness ==
    /\ IsBlameCall
    /\ BlamedFileExists
    /\ request.firstLine = Integer(2)
    /\ request.lastLine = Integer(2)
    /\ LineCount = 2
    /\ response.status = "ok"
    /\ Len(response.lines) = 1

\* C10: in every blame result, for any accepted range and with or without an
\* oldest refspec, the keys of commits are exactly the commit SHAs of the
\* lines: no key without a line, no line without a key
C10_CommitsAreThoseOfLines ==
    (IsBlameCall /\ response.status = "ok")
    => DOMAIN response.commits =
           {response.lines[i].commit : i \in DOMAIN response.lines}

\* a result bounded by an oldest refspec that leaves out a line of the file
\* and with it that line's commit
C10_Witness ==
    /\ IsBlameCall
    /\ response.status = "ok"
    /\ request.oldest = <<"old">>
    /\ LineCount = 2
    /\ Len(response.lines) = 1
    /\ BlamedLines[1].commit # BlamedLines[2].commit
    /\ DOMAIN response.commits = {"c2"}
    /\ response.lines[1].commit = "c2"

----------------------------------------------------------------------------
(* Diffs and the porcelain commit resource *)

\* a line of a blob that only a diff looks at
TextLine(text) == Line(text, NoOid, <<>>)

Max(a, b) == IF a >= b THEN a ELSE b

\* the longest common subsequence of two files' lines: what a line diff keeps
RECURSIVE LCS(_, _)
LCS(a, b) ==
    IF a = <<>> \/ b = <<>> THEN 0
    ELSE IF Head(a).text = Head(b).text THEN 1 + LCS(Tail(a), Tail(b))
    ELSE Max(LCS(Tail(a), b), LCS(a, Tail(b)))

\* the files below a tree, by path; NoOid is the empty tree
TreeFiles(objs, tree) ==
    IF tree = NoOid THEN <<>>
    ELSE SelectSeq(SortByPath(tree_entries(objs, tree, TRUE, <<>>)),
                   LAMBDA entry : entry.type = "blob")

FileAt(files, path) ==
    IF \E i \in DOMAIN files : files[i].path = path
    THEN files[CHOOSE i \in DOMAIN files : files[i].path = path].sha
    ELSE NoOid

\* paths in ascending order
RECURSIVE SortPaths(_)
SortPaths(S) ==
    IF S = {} THEN <<>>
    ELSE LET first == CHOOSE p \in S : \A q \in S : ~LexLess(q, p)
         IN  <<first>> \o SortPaths(S \ {first})

\* patch.line_stats: (context, additions, deletions); the files here are
\* short enough for every kept line of a changed file to be context
LineStats(objs, old_id, new_id) ==
    LET old_lines == IF old_id = NoOid THEN <<>> ELSE objs[old_id].lines
        new_lines == IF new_id = NoOid THEN <<>> ELSE objs[new_id].lines
        kept == LCS(old_lines, new_lines)
    IN  <<kept, Len(new_lines) - kept, Len(old_lines) - kept>>

Patch(objs, status, old_path, old_id, new_path, new_id) ==
    [status |-> status,
     old_file |-> [path |-> old_path, id |-> old_id],
     new_file |-> [path |-> new_path, id |-> new_id],
     line_stats |-> LineStats(objs, old_id, new_id)]

\* a tree-to-tree diff: one patch per path whose blob differs, by path
diff_trees(objs, old_tree, new_tree) ==
    LET old_files == TreeFiles(objs, old_tree)
        new_files == TreeFiles(objs, new_tree)
        paths == SortPaths({old_files[i].path : i \in DOMAIN old_files}
                           \cup {new_files[i].path : i \in DOMAIN new_files})
        RECURSIVE Each(_)
        Each(i) ==
            IF i > Len(paths) THEN <<>>
            ELSE LET p == paths[i]
                     o == FileAt(old_files, p)
                     n == FileAt(new_files, p)
                 IN  (IF o = n THEN <<>>
                      ELSE <<Patch(objs, IF o = NoOid THEN "A"
                                         ELSE IF n = NoOid THEN "D" ELSE "M",
                                   p, o, p, n)>>)
                     \o Each(i + 1)
    IN  Each(1)

\* diff.find_similar(): an added file whose blob is that of a deleted file
\* becomes a rename, and the deletion goes
find_similar(objs, diff) ==
    LET Source(i) == {j \in DOMAIN diff : /\ diff[j].status = "D"
                                          /\ diff[j].old_file.id = diff[i].new_file.id}
        Renamed(i) == diff[i].status = "A" /\ Source(i) # {}
        Target(j) == {i \in DOMAIN diff : Renamed(i) /\ Min(Source(i)) = j}
        RECURSIVE Each(_)
        Each(i) ==
            IF i > Len(diff) THEN <<>>
            ELSE (IF Renamed(i) /\ Min(Target(Min(Source(i)))) = i
                  THEN <<Patch(objs, "R", diff[Min(Source(i))].old_file.path,
                               diff[i].new_file.id, diff[i].new_file.path,
                               diff[i].new_file.id)>>
                  ELSE IF diff[i].status = "D" /\ Target(i) # {} THEN <<>>
                  ELSE <<diff[i]>>)
                 \o Each(i + 1)
    IN  Each(1)

\* repo.diff(a, b) of two commits
repo_diff(objs, a, b) == diff_trees(objs, objs[a].tree, objs[b].tree)

\* tree.diff_to_tree(swap): against the empty tree, the two sides exchanged
\* when swap
diff_to_tree(objs, tree, swap) ==
    IF swap THEN diff_trees(objs, NoOid, tree) ELSE diff_trees(objs, tree, NoOid)

\* the mutant: the baseline is the last parent
DefaultAgainstLastParent(objs, commit) ==
    IF objs[commit].parents # <<>>
    THEN objs[commit].parents[Len(objs[commit].parents)] ELSE NoOid

\* the baseline get_diff picks when against is None
DefaultAgainst(objs, commit) ==
    IF objs[commit].parents # <<>> THEN objs[commit].parents[1] ELSE NoOid

get_diff(objs, commit, against) ==
    LET baseline == IF against = NoOid THEN DefaultAgainst(objs, commit) ELSE against
    IN  IF baseline = NoOid
        THEN diff_to_tree(objs, objs[commit].tree, TRUE)
        ELSE find_similar(objs, repo_diff(objs, baseline, commit))

GIT_STATUS_TO_NAME(status_char) ==
    CASE status_char = "M" -> "modified"
      [] status_char = "A" -> "added"
      [] status_char = "R" -> "renamed"
      [] status_char = "D" -> "removed"

\* _convert_patch, less the URLs and the patch text
convert_patch(objs, commit, patch) ==
    LET deleted == patch.status = "D"
    IN  [commit_sha |-> IF ~deleted THEN commit ELSE objs[commit].parents[1],
         sha |-> IF ~deleted THEN patch.new_file.id ELSE patch.old_file.id,
         status |-> GIT_STATUS_TO_NAME(patch.status),
         filename |-> patch.new_file.path,
         old_filename |-> patch.old_file.path,
         additions |-> patch.line_stats[2],
         deletions |-> patch.line_stats[3],
         changes |-> patch.line_stats[2] + patch.line_stats[3]]

\* the mutant: sums the first member of line_stats, the context lines
RECURSIVE patches_additions_context(_)
patches_additions_context(patches) ==
    IF patches = <<>> THEN 0
    ELSE Head(patches).line_stats[1] + patches_additions_context(Tail(patches))

\* sum(patch.line_stats[1] for patch in patches)
RECURSIVE patches_additions(_)
patches_additions(patches) ==
    IF patches = <<>> THEN 0
    ELSE Head(patches).line_stats[2] + patches_additions(Tail(patches))

\* sum(patch.line_stats[2] for patch in patches)
RECURSIVE patches_deletions(_)
patches_deletions(patches) ==
    IF patches = <<>> THEN 0
    ELSE Head(patches).line_stats[3] + patches_deletions(Tail(patches))

\* porcelain convert_commit(include_diff=True), less URLs and signatures
convert_commit(objs, commit) ==
    LET patches == get_diff(objs, commit, NoOid)
    IN  [sha |-> commit,
         parents |-> objs[commit].parents,
         stats |-> [additions |-> patches_additions(patches),
                    deletions |-> patches_deletions(patches),
                    total |-> patches_additions(patches) + patches_deletions(patches)],
         files |-> [i \in DOMAIN patches |-> convert_patch(objs, commit, patches[i])]]

\* the trees a commit can have: files "a" and "b" and a directory "d"
DiffTrees == {"u0", "u1", "u2", "u3", "u4", "u5"}

\* the root commit d1, its child d2 and the merge d3 of d2 and d1
DiffObjects(tree1, tree2, tree3) ==
    [o \in {"d1", "d2", "d3", "f1", "f2", "f3"} \cup DiffTrees |->
        CASE o = "d1" -> Commit(tree1, <<>>, 1)
          [] o = "d2" -> Commit(tree2, <<"d1">>, 2)
          [] o = "d3" -> Commit(tree3, <<"d2", "d1">>, 3)
          [] o = "f1" -> Blob(<<TextLine(<<120>>)>>, 2)
          [] o = "f2" -> Blob(<<TextLine(<<120>>), TextLine(<<121>>)>>, 4)
          [] o = "f3" -> Blob(<<TextLine(<<121>>), TextLine(<<120>>)>>, 4)
          [] o = "u0" -> Tree(<<>>)
          [] o = "u1" -> Tree(<<Entry(<<97>>, "f1", ModeFile)>>)
          [] o = "u2" -> Tree(<<Entry(<<97>>, "f2", ModeFile)>>)
          [] o = "u3" -> Tree(<<Entry(<<98>>, "f1", ModeFile)>>)
          [] o = "u4" -> Tree(<<Entry(<<97>>, "f3", ModeFile),
                                Entry(<<98>>, "f2", ModeFile)>>)
          [] o = "u5" -> Tree(<<Entry(<<97>>, "f1", ModeFile),
                                Entry(<<100>>, "u3", ModeTree)>>)]

InitDiff ==
    /\ \E tree1, tree2, tree3 \in DiffTrees :
          objects = DiffObjects(tree1, tree2, tree3)
    /\ refs = [n \in {HeadsMain} |-> Direct("d3")]
    /\ request = NoRequest
    /\ response = NoResponse
    /\ pc = "idle"
    /\ temp_files = {}
    /\ filesystem = OneRepository
    /\ MAGIC = NoMimeType

DiffCommits == {"d1", "d2", "d3"}

\* get_diff(repo, commit, against) as the diff and compare routes call it
GetDiff ==
    \E commit \in DiffCommits, against \in DiffCommits \cup {NoOid} :
        /\ request' = [op |-> "get_diff", commit |-> commit, against |-> against]
        /\ response' = [status |-> "ok", diff |-> get_diff(objects, commit, against)]
        /\ UNCHANGED <<objects, refs, pc, temp_files, filesystem, MAGIC>>

\* GET /repos/<repo_key>/commits/<branch_or_tag_or_sha>/
GetCommit ==
    \E name \in {<<c>> : c \in DiffCommits} \cup {<<"main">>, <<"gone">>} :
        LET commit == get_commit_for_refspec(objects, refs, name)
        IN  /\ request' = [op |-> "get_commit", refspec |-> name]
            /\ response' = IF commit.status # "ok" THEN [status |-> commit.status]
                           ELSE [status |-> "ok",
                                 commit |-> convert_commit(objects, commit.oid)]
            /\ UNCHANGED <<objects, refs, pc, temp_files, filesystem, MAGIC>>

NextDiff == GetDiff \/ GetCommit

SpecDiff == InitDiff /\ [][NextDiff]_vars

----------------------------------------------------------------------------
(* Claims about diffs and the commit resource *)

IsGetDiffCall == request.op = "get_diff"

\* C11: get_diff with against=None: for a commit with at least one parent,
\* merges included, the result is that of get_diff(commit, against=
\* commit.parents[0]); for a commit without parents it succeeds and shows every
\* file of the commit as added
C11_DefaultBaseline ==
    (IsGetDiffCall /\ request.against = NoOid)
    => LET commit == request.commit
           parents == objects[commit].parents
           files == TreeFiles(objects, objects[commit].tree)
       IN  /\ response.status = "ok"
           /\ parents # <<>>
                 => response.diff = get_diff(objects, commit, parents[1])
           /\ parents = <<>>
                 => /\ Len(response.diff) = Len(files)
                    /\ \A i \in DOMAIN files :
                          /\ response.diff[i].status = "A"
                          /\ response.diff[i].new_file.path = files[i].path
                          /\ response.diff[i].new_file.id = files[i].sha

\* a merge whose diff against its first parent is not the one against its second
C11_Witness ==
    /\ IsGetDiffCall
    /\ request.against = NoOid
    /\ request.commit = "d3"
    /\ response.diff # <<>>
    /\ response.diff = get_diff(objects, "d3", "d2")
    /\ response.diff # get_diff(objects, "d3", "d1")

\* a commit without parents whose two files both show as added
C11_WitnessRoot ==
    /\ IsGetDiffCall
    /\ request.against = NoOid
    /\ request.commit = "d1"
    /\ Len(response.diff) = 2
    /\ \A i \in 1..2 : response.diff[i].status = "A"

IsGetCommitCall == request.op = "get_commit"

RECURSIVE SumAdditions(_)
SumAdditions(files) ==
    IF files = <<>> THEN 0 ELSE Head(files).additions + SumAdditions(Tail(files))

RECURSIVE SumDeletions(_)
SumDeletions(files) ==
    IF files = <<>> THEN 0 ELSE Head(files).deletions + SumDeletions(Tail(files))

\* C12: in the porcelain commit resource with its diff, stats.additions is the
\* sum of files[*].additions, stats.deletions the sum of files[*].deletions,
\* stats.total their sum, and each file's changes its additions plus its
\* deletions
C12_StatsAreSumsOfFiles ==
    (IsGetCommitCall /\ response.status = "ok")
    => LET stats == response.commit.stats
           files == response.commit.files
       IN  /\ stats.additions = SumAdditions(files)
           /\ stats.deletions = SumDeletions(files)
           /\ stats.total = stats.additions + stats.deletions
           /\ \A i \in DOMAIN files :
                 files[i].changes = files[i].additions + files[i].deletions

\* a commit that changes two files, adding and deleting lines and keeping some
C12_Witness ==
    /\ IsGetCommitCall
    /\ response.status = "ok"
    /\ Len(response.commit.files) = 2
    /\ response.commit.stats.additions >= 2
    /\ response.commit.stats.deletions >= 1
    /\ \E i \in 1..2 : /\ response.commit.files[i].additions >= 1
                       /\ response.commit.files[i].deletions >= 1

----------------------------------------------------------------------------
(* Archives *)

\* temporary files a run of the server creates, at most
MaxTempFiles == 2

\* entry.filemode of a symbolic link (0o120000)
ModeLink == 40960

\* 0o755
DirMode == 493

\* _walk_tree_recursively: (path, filemode, obj) in the order yielded
RECURSIVE walk_tree_recursively(_, _, _, _)
walk_tree_recursively(objs, tree, blobs_only, base_path) ==
    LET entries == objs[tree].entries
        Visit(entry) ==
            IF entry.filemode = GIT_MODE_SUBMODULE THEN <<>>
            ELSE LET path == base_path \o entry.name
                     obj == objs[entry.id]
                 IN  (IF ~blobs_only \/ obj.type = "blob"
                      THEN <<[path |-> path, filemode |-> entry.filemode,
                              obj |-> entry.id]>>
                      ELSE <<>>)
                     \o (IF obj.type = "tree"
                         THEN walk_tree_recursively(objs, entry.id, blobs_only,
                                                    path \o <<Slash>>)
                         ELSE <<>>)
        RECURSIVE Each(_)
        Each(i) == IF i > Len(entries) THEN <<>>
                   ELSE Visit(entries[i]) \o Each(i + 1)
    IN  Each(1)

\* "{}-{}".format(repo_key, commit.hex), kept as the pair it is made of
wrapper_dir_name_for(repo_key, commit) == <<repo_key, commit>>

\* os.path.join(wrapper_dir, path): the path below the wrapper directory
ArchiveName(wrapper_dir, path) == [dir |-> wrapper_dir, path |-> path]

\* the members get_zip_file writes
zip_members(objs, tree, wrapper_dir) ==
    LET walk == walk_tree_recursively(objs, tree, TRUE, <<>>)
    IN  [i \in DOMAIN walk |->
            [name |-> ArchiveName(wrapper_dir, walk[i].path),
             type |-> "file",
             mode |-> 0,
             data |-> objs[walk[i].obj].lines]]

\* the mutant: a directory keeps the mode git stores for it
tar_members_git_modes(objs, tree, wrapper_dir) ==
    LET walk == walk_tree_recursively(objs, tree, FALSE, <<>>)
    IN  [i \in DOMAIN walk |->
            LET obj == objs[walk[i].obj]
            IN  [name |-> ArchiveName(wrapper_dir, walk[i].path),
                 type |-> IF obj.type = "blob" THEN "file" ELSE "dir",
                 mode |-> walk[i].filemode,
                 data |-> IF obj.type = "blob" THEN obj.lines ELSE <<>>]]

\* the members get_tarball adds
tar_members(objs, tree, wrapper_dir) ==
    LET walk == walk_tree_recursively(objs, tree, FALSE, <<>>)
    IN  [i \in DOMAIN walk |->
            LET obj == objs[walk[i].obj]
            IN  [name |-> ArchiveName(wrapper_dir, walk[i].path),
                 type |-> IF obj.type = "blob" THEN "file" ELSE "dir",
                 mode |-> IF obj.type = "tree" THEN DirMode ELSE walk[i].filemode,
                 data |-> IF obj.type = "blob" THEN obj.lines ELSE <<>>]]

\* what get_zip_file and get_tarball do before the temporary file is made
archive_resolved(objs, rs, repo_key, refspec) ==
    LET commit == get_commit_for_refspec(objs, rs, refspec)
    IN  IF repo_key # "repo" THEN Fail("NotFound")
        ELSE IF commit.status # "ok" THEN commit
        \* only a commit has a tree attribute
        ELSE IF objs[commit.oid].type # "commit" THEN Fail("ServerError")
        ELSE get_tree(objs, objs[commit.oid].tree)

\* the temporary file in use: the one made last
CurrentTempFile == CHOOSE f \in temp_files : f.id = Cardinality(temp_files)

\* get_zip_file / get_tarball up to _make_temp_file: mkstemp makes the file
\* and opens it, os.remove unlinks it, or fails and is only logged
ArchiveBegin ==
    \E op \in {"get_zip_file", "get_tarball"}, repo_key \in {"repo", "missing"},
       refspec \in {<<"main">>, <<"gone">>}, removed \in BOOLEAN :
        LET tree == archive_resolved(objects, refs, repo_key, refspec)
        IN  /\ pc = "idle"
            /\ Cardinality(temp_files) < MaxTempFiles
            /\ request' = [op |-> op, repo_key |-> repo_key, refspec |-> refspec]
            /\ IF tree.status # "ok"
               THEN /\ response' = [status |-> tree.status]
                    /\ UNCHANGED <<pc, temp_files, filesystem, MAGIC>>
               ELSE /\ response' = NoResponse
                    /\ pc' = "writing"
                    /\ temp_files' = temp_files \cup
                           {[id |-> Cardinality(temp_files) + 1,
                             on_disk |-> ~removed, open |-> TRUE]}
            /\ UNCHANGED <<objects, refs, filesystem, MAGIC>>

\* the walk and the writing of the archive, to the point of send_file
ArchiveWrite ==
    /\ pc = "writing"
    /\ LET tree == archive_resolved(objects, refs, request.repo_key, request.refspec)
           commit == get_commit_for_refspec(objects, refs, request.refspec)
           wrapper_dir == wrapper_dir_name_for(request.repo_key, commit.oid)
       IN  response' = [status |-> "ok",
                        members |-> IF request.op = "get_zip_file"
                                    THEN zip_members(objects, tree.oid, wrapper_dir)
                                    ELSE tar_members(objects, tree.oid, wrapper_dir)]
    /\ pc' = "sending"
    /\ UNCHANGED <<objects, refs, request, temp_files, filesystem, MAGIC>>

\* the walk or the writing raises: nothing in the handler closes the file,
\* which stays open until its object is finalised, before the request
\* ends or after
ArchiveFail ==
    /\ pc = "writing"
    /\ \E finalised \in BOOLEAN :
          temp_files' = (temp_files \ {CurrentTempFile}) \cup
                            {[CurrentTempFile EXCEPT !.open = ~finalised]}
    /\ response' = [status |-> "ServerError"]
    /\ pc' = "idle"
    /\ UNCHANGED <<objects, refs, request, filesystem, MAGIC>>

\* the server sends the response and closes it, and with it the file
ArchiveSend ==
    /\ pc = "sending"
    /\ temp_files' = (temp_files \ {CurrentTempFile}) \cup
                         {[CurrentTempFile EXCEPT !.open = FALSE]}
    /\ pc' = "idle"
    /\ UNCHANGED <<objects, refs, request, response, filesystem, MAGIC>>

\* entries of the root tree: a file, a directory, a symbolic link, a submodule
ArchiveRootCandidates ==
    <<Entry(<<97>>, "b1", ModeFile), Entry(<<100>>, "t1", ModeTree),
      Entry(<<108>>, "b2", ModeLink), Entry(<<115>>, "s1", GIT_MODE_SUBMODULE)>>

\* what the directory can hold
ArchiveDirChoices ==
    { <<Entry(<<97>>, "b1", ModeExecutable)>>,
      <<Entry(<<108>>, "b2", ModeLink)>>,
      <<Entry(<<115>>, "s1", GIT_MODE_SUBMODULE)>>,
      <<Entry(<<97>>, "b2", ModeFile), Entry(<<101>>, "t2", ModeTree)>> }

ArchiveObjects(root, dir) ==
    [o \in {"c1", "t0", "t1", "t2", "b1", "b2"} |->
        CASE o = "c1" -> Commit("t0", <<>>, 1)
          [] o = "t0" -> Tree(root)
          [] o = "t1" -> Tree(dir)
          [] o = "t2" -> Tree(<<Entry(<<98>>, "b1", ModeFile)>>)
          [] o = "b1" -> Blob(<<TextLine(<<120>>)>>, 2)
          [] o = "b2" -> Blob(<<TextLine(<<97>>)>>, 1)]

InitArchive ==
    /\ \E keep \in SUBSET (1..4), dir \in ArchiveDirChoices :
          LET root == SelectSeq(ArchiveRootCandidates,
                                LAMBDA entry : \E i \in keep :
                                    ArchiveRootCandidates[i] = entry)
          IN  /\ (2 \notin keep) => dir = <<Entry(<<97>>, "b1", ModeExecutable)>>
              /\ objects = ArchiveObjects(root, dir)
    /\ refs = [n \in {HeadsMain} |-> Direct("c1")]
    /\ request = NoRequest
    /\ response = NoResponse
    /\ pc = "idle"
    /\ temp_files = {}
    /\ filesystem = OneRepository
    /\ MAGIC = NoMimeType

NextArchive == ArchiveBegin \/ ArchiveWrite \/ ArchiveFail \/ ArchiveSend

SpecArchive == InitArchive /\ [][NextArchive]_vars

----------------------------------------------------------------------------
(* Claims about archives *)

\* a finished archive is at hand
IsArchiveResult ==
    /\ request.op \in {"get_zip_file", "get_tarball"}
    /\ response.status = "ok"

\* every entry below a tree, with its path from that tree; a submodule has
\* nothing below it in this repository
RECURSIVE AllEntries(_, _, _)
AllEntries(objs, tree, base_path) ==
    UNION { {[path |-> base_path \o objs[tree].entries[i].name,
              filemode |-> objs[tree].entries[i].filemode,
              id |-> objs[tree].entries[i].id]}
            \cup (IF objs[tree].entries[i].filemode = ModeTree
                  THEN AllEntries(objs, objs[tree].entries[i].id,
                                  base_path \o objs[tree].entries[i].name \o <<Slash>>)
                  ELSE {})
            : i \in DOMAIN objs[tree].entries }

MemberPaths == {response.members[i].name.path : i \in DOMAIN response.members}

\* C13: the archive walk skips every submodule entry and every symlink entry,
\* neither yields an archive entry, and every other blob, and for the tar
\* every other tree, is visited
C13_SkipsSubmodulesAndSymlinks ==
    IsArchiveResult
    => \A e \in AllEntries(objects, objects["c1"].tree, <<>>) :
          IF e.filemode \in {GIT_MODE_SUBMODULE, ModeLink}
          THEN e.path \notin MemberPaths
          ELSE (e.filemode # ModeTree \/ request.op = "get_tarball")
                   => e.path \in MemberPaths

\* the directories that extracting the archive makes: its directory members
\* and the directories its members lie in
ExtractedDirs ==
    UNION { {SubSeq(p, 1, k - 1) : k \in {k \in DOMAIN p : p[k] = Slash}}
            : p \in MemberPaths }
    \cup {response.members[i].name.path :
             i \in {i \in DOMAIN response.members : response.members[i].type = "dir"}}

IsBelow(path, dir) ==
    /\ Len(path) > Len(dir) + 1
    /\ SubSeq(path, 1, Len(dir) + 1) = dir \o <<Slash>>

\* C14: the zip and the tar hold, under the one wrapper directory
\* <repoKey>-<commit SHA>, exactly one file per blob of the commit's tree, at
\* its path and with its bytes; extracting either gives a directory for every
\* non-empty subtree; the tar has a directory entry of mode 0755 for each
\* subtree, ahead of the entries beneath it
C14_ArchiveRoundTrip ==
    IsArchiveResult
    => LET entries == AllEntries(objects, objects["c1"].tree, <<>>)
           blobs == {e \in entries : e.filemode \notin {GIT_MODE_SUBMODULE, ModeTree}}
           subtrees == {e \in entries : e.filemode = ModeTree}
           members == response.members
           files == {i \in DOMAIN members : members[i].type = "file"}
       IN  /\ \A i \in DOMAIN members :
                 members[i].name.dir = <<request.repo_key, "c1">>
           /\ {[path |-> members[i].name.path, data |-> members[i].data] : i \in files}
                 = {[path |-> e.path, data |-> objects[e.id].lines] : e \in blobs}
           /\ Cardinality(files) = Cardinality(blobs)
           /\ \A e \in subtrees :
                 objects[e.id].entries # <<>> => e.path \in ExtractedDirs
           /\ request.op = "get_tarball"
                 => \A e \in subtrees :
                       \E i \in DOMAIN members :
                           /\ members[i].type = "dir"
                           /\ members[i].name.path = e.path
                           /\ members[i].mode = DirMode
                           /\ \A j \in DOMAIN members :
                                 IsBelow(members[j].name.path, e.path) => i < j

\* C15: the temporary file of an archive request is released on every exit
\* path: once the request has ended, normally or by a failure of the walk or
\* of the writing, no temporary file is left on disk and none is open
C15_TempFileReleased ==
    pc = "idle" => \A f \in temp_files : ~f.on_disk /\ ~f.open

\* a subtree with a file somewhere beneath it
HoldsFiles(e) ==
    \E b \in AllEntries(objects, e.id, <<>>) :
        b.filemode \notin {GIT_MODE_SUBMODULE, ModeTree}

\* C14, as the archives are built: exactly one file per blob, under the one
\* wrapper directory, at its path and with its bytes; the tar has a directory
\* entry of mode 0755 for each subtree, ahead of the entries beneath it;
\* extracting the zip gives a directory for each subtree that holds a file
\* somewhere beneath it (a subtree of submodules only leaves no trace in it)
C14_ArchiveRoundTripOfFiles ==
    IsArchiveResult
    => LET entries == AllEntries(objects, objects["c1"].tree, <<>>)
           blobs == {e \in entries : e.filemode \notin {GIT_MODE_SUBMODULE, ModeTree}}
           subtrees == {e \in entries : e.filemode = ModeTree}
           members == response.members
           files == {i \in DOMAIN members : members[i].type = "file"}
       IN  /\ \A i \in DOMAIN members :
                 members[i].name.dir = <<request.repo_key, "c1">>
           /\ {[path |-> members[i].name.path, data |-> members[i].data] : i \in files}
                 = {[path |-> e.path, data |-> objects[e.id].lines] : e \in blobs}
           /\ Cardinality(files) = Cardinality(blobs)
           /\ request.op = "get_zip_file"
                 => /\ \A e \in subtrees : HoldsFiles(e) <=> e.path \in ExtractedDirs
                    /\ files = DOMAIN members
           /\ request.op = "get_tarball"
                 => \A e \in subtrees :
                       /\ e.path \in ExtractedDirs
                       /\ \E i \in DOMAIN members :
                             /\ members[i].type = "dir"
                             /\ members[i].name.path = e.path
                             /\ members[i].mode = DirMode
                             /\ \A j \in DOMAIN members :
                                   IsBelow(members[j].name.path, e.path) => i < j

\* a tar of a tree with a file, a directory and a directory within it
C14_Witness ==
    /\ IsArchiveResult
    /\ request.op = "get_tarball"
    /\ \E i, j, k, l \in DOMAIN response.members :
          /\ i < j /\ j < k /\ k < l
          /\ response.members[i].name.path = <<97>>
          /\ response.members[j].name.path = <<100>>
          /\ response.members[j].type = "dir"
          /\ response.members[k].name.path = <<100, Slash, 101>>
          /\ response.members[k].mode = DirMode
          /\ response.members[l].name.path = <<100, Slash, 101, Slash, 98>>
          /\ response.members[l].data = objects["b1"].lines

\* a zip of a tree whose directory holds a submodule and nothing else
C14_WitnessZip ==
    /\ IsArchiveResult
    /\ request.op = "get_zip_file"
    /\ \E e \in AllEntries(objects, objects["c1"].tree, <<>>) :
          e.filemode = ModeTree /\ ~HoldsFiles(e)
    /\ response.members # <<>>

----------------------------------------------------------------------------
(* Lookup of objects by SHA: get_commit, get_tree, get_blob, get_tag *)

\* hex digits of an object id in this model (40 in Git)
ShaLen == 6

\* the shortest prefix libgit2 looks up
GIT_OID_MINPREFIXLEN == 4

ShaObjectIds == {"c1", "c2", "t1", "t2", "b1"} \cup TagChainOids

\* the hex digits of each object id; c1 and c2 agree on their first
\* GIT_OID_MINPREFIXLEN digits
HexOf(oid) ==
    LET digit == CASE oid = "c1" -> 1 [] oid = "c2" -> 1 [] oid = "t1" -> 2
                   [] oid = "t2" -> 3 [] oid = "b1" -> 4
                   [] OTHER -> 4 + (CHOOSE k \in 1..MaxTagDepth : TagOids[k] = oid)
    IN  [i \in 1..ShaLen |->
            IF oid = "c2" /\ i > GIT_OID_MINPREFIXLEN THEN 9 ELSE digit]

IsPrefix(p, s) == Len(p) <= Len(s) /\ SubSeq(s, 1, Len(p)) = p

\* the mutant: a prefix of several ids finds one of them
repo_getitem_first_match(objs, sha) ==
    LET matches == {o \in DOMAIN objs : IsPrefix(sha, HexOf(o))}
    IN  IF Len(sha) < GIT_OID_MINPREFIXLEN THEN Fail("ValueError")
        ELSE IF matches = {} THEN Fail("KeyError")
        ELSE Ok(CHOOSE o \in matches : TRUE)

\* repo[sha]: the object whose id starts with sha; KeyError when there is
\* none, ValueError when sha is shorter than the shortest prefix or it is
\* the start of several ids
repo_getitem(objs, sha) ==
    LET matches == {o \in DOMAIN objs : IsPrefix(sha, HexOf(o))}
    IN  IF Len(sha) < GIT_OID_MINPREFIXLEN THEN Fail("ValueError")
        ELSE IF matches = {} THEN Fail("KeyError")
        ELSE IF Cardinality(matches) > 1 THEN Fail("ValueError")
        ELSE Ok(CHOOSE o \in matches : TRUE)

\* the body shared by get_commit, get_blob and get_tag
get_of_type(objs, sha, type, obj) ==
    IF objs[obj.oid].type # type THEN Fail("NotFound") ELSE Ok(obj.oid)

get_typed(objs, sha, type) ==
    LET obj == repo_getitem(objs, sha)
    IN  IF obj.status = "KeyError" THEN Fail("NotFound")
        ELSE IF obj.status # "ok" THEN Fail("ServerError")
        ELSE get_of_type(objs, sha, type, obj)

get_commit(objs, sha) == get_typed(objs, sha, "commit")

get_blob(objs, sha) == get_typed(objs, sha, "blob")

get_tag(objs, sha) == get_typed(objs, sha, "tag")

\* get_tree, from the SHA as the URL gives it
get_tree_by_sha(objs, sha) ==
    LET obj == repo_getitem(objs, sha)
    IN  IF obj.status = "KeyError" THEN Fail("NotFound")
        ELSE IF obj.status # "ok" THEN Fail("ServerError")
        ELSE get_tree(objs, obj.oid)

\* the SHAs asked for: every id in full and cut short, and ids of no object
RequestShas ==
    {SubSeq(HexOf(o), 1, n) : o \in ShaObjectIds,
                              n \in (GIT_OID_MINPREFIXLEN - 1)..ShaLen}
    \cup {[i \in 1..n |-> 15] : n \in {GIT_OID_MINPREFIXLEN - 1, ShaLen}}

InitShas ==
    /\ \E base \in {"c1", "t1", "b1"} : objects = ResolverObjects(base)
    /\ refs = ResolverRefs("c1", NoOid, NoOid)
    /\ request = NoRequest
    /\ response = NoResponse
    /\ pc = "idle"
    /\ temp_files = {}
    /\ filesystem = OneRepository
    /\ MAGIC = NoMimeType

\* GET /repos/<repo_key>/git/commits/<sha>/
LookupCommit ==
    \E sha \in RequestShas :
        /\ request' = [op |-> "get_commit", sha |-> sha]
        /\ response' = get_commit(objects, sha)
        /\ UNCHANGED <<objects, refs, pc, temp_files, filesystem, MAGIC>>

\* GET /repos/<repo_key>/git/trees/<sha>/
LookupTree ==
    \E sha \in RequestShas :
        /\ request' = [op |-> "get_tree", sha |-> sha]
        /\ response' = get_tree_by_sha(objects, sha)
        /\ UNCHANGED <<objects, refs, pc, temp_files, filesystem, MAGIC>>

\* GET /repos/<repo_key>/git/blobs/<sha>/
LookupBlob ==
    \E sha \in RequestShas :
        /\ request' = [op |-> "get_blob", sha |-> sha]
        /\ response' = get_blob(objects, sha)
        /\ UNCHANGED <<objects, refs, pc, temp_files, filesystem, MAGIC>>

\* GET /repos/<repo_key>/git/tags/<sha>/
LookupTag ==
    \E sha \in RequestShas :
        /\ request' = [op |-> "get_tag", sha |-> sha]
        /\ response' = get_tag(objects, sha)
        /\ UNCHANGED <<objects, refs, pc, temp_files, filesystem, MAGIC>>

NextShas == LookupCommit \/ LookupTree \/ LookupBlob \/ LookupTag

SpecShas == InitShas /\ [][NextShas]_vars

----------------------------------------------------------------------------
(* Claims about lookup by SHA *)

IsShaCall == request.op \in {"get_commit", "get_tree", "get_blob", "get_tag"}

\* the kind each resolver is named for
KindOf(op) == CASE op = "get_commit" -> "commit" [] op = "get_tree" -> "tree"
                [] op = "get_blob" -> "blob" [] op = "get_tag" -> "tag"

\* the objects whose id starts with the SHA of the request
Matching == {o \in DOMAIN objects : IsPrefix(request.sha, HexOf(o))}

\* C16: get_commit, get_blob and get_tag fail with NotFound when the SHA
\* matches no object and when it matches an object of another kind; get_tree
\* fails with NotFound for an absent SHA and for a blob SHA; whenever one of
\* the four succeeds, what it returns is of the kind it is named for
C16_NotFoundOrRightKind ==
    IsShaCall
    => /\ Matching = {} => response.status = "NotFound"
       /\ (/\ request.op # "get_tree"
           /\ \E o \in Matching : objects[o].type # KindOf(request.op))
             => response.status = "NotFound"
       /\ (/\ request.op = "get_tree"
           /\ \E o \in Matching : objects[o].type = "blob")
             => response.status = "NotFound"
       /\ response.status = "ok"
             => objects[response.oid].type = KindOf(request.op)

\* C17: for every SHA on which a resolver succeeds, the SHA of the object
\* returned is the input SHA after prefix expansion, and resolving the
\* returned object's SHA with the same resolver returns the same object
C17_ReturnsTheObjectAsked ==
    (IsShaCall /\ response.status = "ok")
    => /\ IsPrefix(request.sha, HexOf(response.oid))
       /\ (IF request.op = "get_tree"
           THEN get_tree_by_sha(objects, HexOf(response.oid))
           ELSE get_typed(objects, HexOf(response.oid), KindOf(request.op)))
              = Ok(response.oid)

\* C17, as the resolvers behave: get_commit, get_blob and get_tag return the
\* object whose SHA the input expands to; get_tree returns that object when it
\* is a tree and the tree of the commit it is, or is tagged by, otherwise;
\* resolving the returned object's SHA again returns the same object
C17_ReturnsTheObjectOrItsTree ==
    (IsShaCall /\ response.status = "ok")
    => /\ Cardinality(Matching) = 1
       /\ (request.op # "get_tree" \/ \E o \in Matching : objects[o].type = "tree")
             => response.oid \in Matching
       /\ (request.op = "get_tree" /\ \E o \in Matching : objects[o].type # "tree")
             => \E o \in Matching : response.oid = ReferencedTree(objects, o)
       /\ (IF request.op = "get_tree"
           THEN get_tree_by_sha(objects, HexOf(response.oid))
           ELSE get_typed(objects, HexOf(response.oid), KindOf(request.op)))
              = Ok(response.oid)

\* a commit found by a SHA cut short
C17_Witness ==
    /\ request.op = "get_commit"
    /\ Len(request.sha) < ShaLen
    /\ response = Ok("c2")

\* the tree of a commit found through a tag of a tag
C17_WitnessTree ==
    /\ request.op = "get_tree"
    /\ request.sha = HexOf("g2")
    /\ response = Ok("t1")

----------------------------------------------------------------------------
(* More claims about path resolution (under SpecPaths) *)

\* the segments of the requested path, less the empty one a trailing slash
\* leaves
NamedSegments ==
    LET segments == Split(request.path)
    IN  IF segments[Len(segments)] = <<>>
        THEN SubSeq(segments, 1, Len(segments) - 1) ELSE segments

\* the object at the path made of these segments below the tree of the
\* request, NoOid when there is none
ObjectAt(segments) ==
    LET entries == AllEntries(objects, request.tree, <<>>)
    IN  IF segments = <<>> THEN request.tree
        ELSE IF \E e \in entries : e.path = Join(segments) /\ e.id \in DOMAIN objects
        THEN (CHOOSE e \in entries : e.path = Join(segments)).id
        ELSE NoOid

\* C18: get_object_from_path fails with NotFound whenever a path segment names
\* no entry of the tree reached so far, and whenever a segment that is not
\* the last resolves to an object that is not a tree; when it succeeds, the
\* object returned is the one at exactly that path below the starting tree
C18_NotFoundOrObjectAtPath ==
    IsPathCall
    => /\ (\E k \in DOMAIN NamedSegments :
              LET reached == ObjectAt(SubSeq(NamedSegments, 1, k - 1))
              IN  /\ reached # NoOid
                  /\ objects[reached].type = "tree"
                  /\ \A i \in DOMAIN objects[reached].entries :
                        objects[reached].entries[i].name # NamedSegments[k])
             => response = Fail("NotFound")
       /\ (\E k \in 1..(Len(Split(request.path)) - 1) :
              LET reached == ObjectAt(SubSeq(Split(request.path), 1, k))
              IN  reached # NoOid /\ objects[reached].type # "tree")
             => response = Fail("NotFound")
       /\ response.status = "ok"
             => /\ ObjectAt(NamedSegments) # NoOid
                /\ response.oid = ObjectAt(NamedSegments)

\* a file below a directory below a directory is found
C18_Witness ==
    /\ IsPathCall
    /\ request.path = <<97, Slash, 97, Slash, 97>>
    /\ response = Ok("b2")

\* a file used as a directory is not found
C18_WitnessBlobAsDirectory ==
    /\ IsPathCall
    /\ request.path = <<98, Slash, 97>>
    /\ ObjectAt(<<<<98>>>>) = "b2"
    /\ response = Fail("NotFound")

----------------------------------------------------------------------------
(* lookup_ref *)

\* None, where a reference name is expected
NoRef == <<>>

\* repo.lookup_reference(name): the reference of exactly that name; KeyError
\* or ValueError, here "error", when there is none or the name is not valid
lookup_reference(rs, name) ==
    IF name \in DOMAIN rs THEN [status |-> "ok", ref |-> name]
    ELSE [status |-> "error", ref |-> NoRef]

\* the mutant: the retry is always below refs/heads/
RetryNameInHeads(ref_name) == <<"refs", "heads">> \o ref_name

\* the name lookup_ref retries with
RetryName(ref_name) ==
    IF Len(ref_name) >= 2 /\ ref_name[1] # "refs"
    THEN <<"refs">> \o ref_name
    ELSE <<"refs", "heads">> \o ref_name

lookup_ref(rs, ref_name) ==
    LET exact == lookup_reference(rs, ref_name)
        retried == lookup_reference(rs, RetryName(ref_name))
    IN  IF exact.status = "ok" THEN exact.ref
        ELSE IF retried.status = "ok" THEN retried.ref
        ELSE NoRef

\* references a repository may hold: HEAD, branch x, tag x, a branch named
\* heads/x and a branch named refs/tags/x
RefCandidates ==
    {<<"HEAD">>, HeadsX, TagsX, <<"refs", "heads", "heads", "x">>,
     <<"refs", "heads", "refs", "tags", "x">>}

InitRefs ==
    /\ objects = ResolverObjects("c1")
    /\ \E names \in SUBSET RefCandidates :
          refs = [n \in names |-> IF n = <<"HEAD">> THEN Symbolic(HeadsX)
                                  ELSE IF n = TagsX THEN Direct("g1")
                                  ELSE Direct("c1")]
    /\ request = NoRequest
    /\ response = NoResponse
    /\ pc = "idle"
    /\ temp_files = {}
    /\ filesystem = OneRepository
    /\ MAGIC = NoMimeType

RefNames ==
    {<<"x">>, <<"y">>, <<"HEAD">>, <<"refs">>, <<"">>, <<"heads", "x">>,
     <<"tags", "x">>, <<"refs", "heads", "x">>, <<"refs", "tags", "x">>,
     <<"refs", "tags", "y">>}

LookupRef ==
    \E ref_name \in RefNames :
        /\ request' = [op |-> "lookup_ref", ref_name |-> ref_name]
        /\ response' = [status |-> "ok", ref |-> lookup_ref(refs, ref_name)]
        /\ UNCHANGED <<objects, refs, pc, temp_files, filesystem, MAGIC>>

NextRefs == LookupRef

SpecRefs == InitRefs /\ [][NextRefs]_vars

----------------------------------------------------------------------------
(* Claims about lookup_ref *)

IsLookupRefCall == request.op = "lookup_ref"

\* C19: lookup_ref returns the reference of exactly the given name when there
\* is one; otherwise it retries once, as refs/<name> when the name contains
\* '/' and does not start with refs/, as refs/heads/<name> in every other
\* case; when the retry finds nothing it returns None and does not raise
C19_ExactThenOneRetry ==
    IsLookupRefCall
    => LET name == request.ref_name
           retry == IF Len(name) > 1 /\ name[1] # "refs"
                    THEN <<"refs">> \o name ELSE <<"refs", "heads">> \o name
       IN  /\ response.status = "ok"
           /\ response.ref = IF name \in DOMAIN refs THEN name
                             ELSE IF retry \in DOMAIN refs THEN retry
                             ELSE NoRef

\* tags/x finds refs/tags/x though a branch named tags/x could be looked for
C19_Witness ==
    /\ IsLookupRefCall
    /\ request.ref_name = <<"tags", "x">>
    /\ response.ref = TagsX

\* a name that starts with refs/ is retried below refs/heads/
C19_WitnessRefsPrefix ==
    /\ IsLookupRefCall
    /\ request.ref_name = <<"refs", "tags", "x">>
    /\ TagsX \notin DOMAIN refs
    /\ response.ref = <<"refs", "heads", "refs", "tags", "x">>

\* nothing found: None
C19_WitnessNone ==
    /\ IsLookupRefCall
    /\ request.ref_name = <<"x">>
    /\ response.ref = NoRef

----------------------------------------------------------------------------
(* More claims about the branch-unique-commit calculator (under SpecHistory) *)

\* another non-symbolic ref points at the tip of the branch of the request
TipIsSharedWithAnotherRef ==
    \E n \in DOMAIN refs :
        /\ n # request.branch
        /\ ~refs[n].symbolic
        /\ refs[n].target = refs[request.branch].target

\* C20: for every branch whose tip is also the target of another non-symbolic
\* ref, a branch or a lightweight tag, get_commits_unique_to_branch yields no
\* commits, in topological and in chronological order alike
C20_DuplicateIsEmpty ==
    (IsUniqueCall /\ TipIsSharedWithAnotherRef) => response.commits = <<>>

\* a branch with history, tagged at its tip, chronological order
C20_Witness ==
    /\ IsUniqueCall
    /\ request.branch = HeadsMain
    /\ request.sort = "chronological"
    /\ TagsV \in DOMAIN refs
    /\ refs[TagsV].target = refs[HeadsMain].target
    /\ Cardinality(Reach(objects, refs[HeadsMain].target)) > 2
    /\ response.commits = <<>>

\* two branches at one commit, topological order
C20_WitnessBranches ==
    /\ IsUniqueCall
    /\ request.branch = HeadsOther
    /\ request.sort = "topological"
    /\ refs[HeadsOther].target = refs[HeadsMain].target
    /\ response.commits = <<>>

(***************************************************************************)
(* Ordering of the unique commits.  Commit times are whatever the          *)
(* committers' clocks said: a commit may carry an earlier time than one of *)
(* its parents.                                                            *)
(***************************************************************************)
TimedCommits == <<"k1", "k2", "k3">>

TimedParentChoices ==
    {par \in [DOMAIN TimedCommits -> SUBSET DOMAIN TimedCommits] :
        \A i \in DOMAIN TimedCommits : par[i] \subseteq 1..(i - 1)}

TimeChoices == [DOMAIN TimedCommits -> DOMAIN TimedCommits]

TimedHistoryObjects(par, time) ==
    [o \in Range(TimedCommits) \cup {"t1"} |->
        IF o = "t1" THEN Tree(<<>>)
        ELSE LET i == CHOOSE j \in DOMAIN TimedCommits : TimedCommits[j] = o
             IN  Commit("t1", SetToSeq({TimedCommits[p] : p \in par[i]}), time[i])]

InitTimedHistory ==
    /\ \E par \in TimedParentChoices, time \in TimeChoices :
          objects = TimedHistoryObjects(par, time)
    /\ \E o \in Range(TimedCommits) \cup {NoOid},
          v \in Range(TimedCommits) \cup {NoOid} :
            refs = HistoryRefs(TimedCommits[Len(TimedCommits)], o, v)
    /\ ReachAll(objects, {refs[n].target : n \in DOMAIN refs \ {<<"HEAD">>}})
          = Range(TimedCommits)
    /\ request = NoRequest
    /\ response = NoResponse
    /\ pc = "idle"
    /\ temp_files = {}
    /\ filesystem = OneRepository
    /\ MAGIC = NoMimeType

SpecTimedHistory == InitTimedHistory /\ [][NextHistory]_vars

Position(seq, x) == CHOOSE i \in DOMAIN seq : seq[i] = x

ParentsFirst(commits) ==
    \A c \in Range(commits) :
        \A p \in Range(objects[c].parents) \cap Range(commits) :
            Position(commits, p) < Position(commits, c)

NonDecreasingTime(commits) ==
    \A i, j \in DOMAIN commits :
        i < j => objects[commits[i]].time <= objects[commits[j]].time

\* a linear history at the branch tip and no other non-symbolic ref
LinearAlone ==
    /\ OtherRefTargets = {}
    /\ \A c \in Reach(objects, refs[request.branch].target) :
          Len(objects[c].parents) <= 1

\* the chain from the root to the tip, each commit the parent of the next
IsChainToTip(commits) ==
    /\ Range(commits) = Reach(objects, refs[request.branch].target)
    /\ Len(commits) = Cardinality(Range(commits))
    /\ commits # <<>>
    /\ commits[Len(commits)] = refs[request.branch].target
    /\ \A i \in 1..(Len(commits) - 1) :
          objects[commits[i + 1]].parents = <<commits[i]>>

\* no commit carries an earlier time than one of its parents
TimesFollowParents ==
    \A c \in Range(TimedCommits) :
        \A p \in Range(objects[c].parents) : objects[p].time <= objects[c].time

C21_WitnessMerge ==
    /\ IsUniqueCall
    /\ request.sort = "topological"
    /\ Len(response.commits) = 3
    /\ \E c \in Range(response.commits) : Len(objects[c].parents) = 2

\* the linear history A <- B <- C with no other refs
C21_WitnessLinear ==
    /\ IsUniqueCall
    /\ LinearAlone
    /\ response.commits = TimedCommits

(***************************************************************************)
(* The commit list: /repos/<repo_key>/git/commits/?limit=&start_sha=       *)
(* &ref_name=.  Query parameters are texts (sequences of character codes); *)
(* int() and the bound of islice() are modelled on the digits, the width   *)
(* of a machine integer being part of the behaviour.                       *)
(***************************************************************************)
ListFail(kind) == [status |-> kind, commits |-> <<>>]

SignStripped(text) == IF text # <<>> /\ text[1] = 45 THEN Tail(text) ELSE text

\* int(text) raises no ValueError: an optional '-' and at least one digit
IsIntegerText(text) ==
    /\ SignStripped(text) # <<>>
    /\ \A i \in DOMAIN SignStripped(text) : SignStripped(text)[i] \in 48..57

RECURSIVE StripZeros(_)
StripZeros(digits) ==
    IF digits # <<>> /\ digits[1] = 0 THEN StripZeros(Tail(digits)) ELSE digits

\* the magnitude of int(text) as decimal digits without leading zeros
Digits(text) ==
    StripZeros([i \in DOMAIN SignStripped(text) |-> SignStripped(text)[i] - 48])

\* int(text) < 0
IsNegative(text) == text[1] = 45 /\ Digits(text) # <<>>

RECURSIVE DigitsLess(_, _)
DigitsLess(a, b) ==
    IF Len(a) # Len(b) THEN Len(a) < Len(b)
    ELSE IF a = <<>> THEN FALSE
    ELSE IF a[1] # b[1] THEN a[1] < b[1]
    ELSE DigitsLess(Tail(a), Tail(b))

RECURSIVE DigitsValue(_)
DigitsValue(digits) ==
    IF digits = <<>> THEN 0
    ELSE 10 * DigitsValue(SubSeq(digits, 1, Len(digits) - 1)) + digits[Len(digits)]

\* sys.maxint of the 64-bit interpreter: 9223372036854775807
maxint == <<9, 2, 2, 3, 3, 7, 2, 0, 3, 6, 8, 5, 4, 7, 7, 5, 8, 0, 7>>

\* RESTFULGIT_DEFAULT_COMMIT_LIST_LIMIT
DefaultCommitListLimit == <<5, 0>>

\* itertools.islice(walk, stop) consumed to the end: ValueError for a stop
\* beyond sys.maxint; a stop of ten digits or more exceeds every walk here
islice(walk, stop) ==
    IF DigitsLess(maxint, stop) THEN [status |-> "ValueError", items |-> <<>>]
    ELSE IF Len(stop) > 9 THEN [status |-> "ok", items |-> walk]
    ELSE [status |-> "ok",
          items |-> SubSeq(walk, 1, Min({DigitsValue(stop), Len(walk)}))]

NoParam == ""
UnknownSha == "0000"
MalformedSha == "zz"

\* repo.walk(start, GIT_SORT_TIME): newest first from the start commit
walk_time(objs, start) ==
    IF start = MalformedSha THEN {[status |-> "ValueError", walk |-> <<>>]}
    ELSE IF start \notin DOMAIN objs THEN {[status |-> "KeyError", walk |-> <<>>]}
    ELSE {[status |-> "ok", walk |-> w] :
            w \in TimeWalk(objs, Reach(objs, start), {start}, {start})}

\* the commit the list starts from, or the response that ends the request
start_commit_id(rs, start_sha, ref_name) ==
    IF start_sha # NoParam THEN [status |-> "ok", id |-> start_sha]
    ELSE LET name == IF ref_name = NoParam THEN "HEAD" ELSE ref_name
             ref == lookup_ref(rs, <<name>>)
         IN  IF ref = NoRef THEN [status |-> "NotFound", id |-> NoOid]
             ELSE IF ResolveRef(rs, ref, MaxTagDepth) = NoOid
             THEN IF name = "HEAD" THEN [status |-> "empty", id |-> NoOid]
                  ELSE [status |-> "NotFound", id |-> NoOid]
             ELSE [status |-> "ok", id |-> ResolveRef(rs, ref, MaxTagDepth)]

get_commit_list(objs, rs, req) ==
    LET limit == IF req.limit = <<>> THEN DefaultCommitListLimit
                 ELSE Digits(req.limit)
        start == start_commit_id(rs, req.start_sha, req.ref_name)
    IN  IF req.limit # <<>> /\ ~IsIntegerText(req.limit)
        THEN {ListFail("BadRequest")}
        ELSE IF req.limit # <<>> /\ IsNegative(req.limit)
        THEN {ListFail("BadRequest")}
        ELSE IF req.repo_key # "repo" THEN {ListFail("NotFound")}
        ELSE IF start.status = "NotFound" THEN {ListFail("NotFound")}
        ELSE IF start.status = "empty" THEN {[status |-> "ok", commits |-> <<>>]}
        ELSE { IF w.status = "ValueError" THEN ListFail("BadRequest")
               ELSE IF w.status = "KeyError" THEN ListFail("NotFound")
               ELSE IF islice(w.walk, limit).status # "ok"
               THEN ListFail("ServerError")
               ELSE [status |-> "ok", commits |-> islice(w.walk, limit).items] :
               w \in walk_time(objs, start.id) }

\* texts of the limit parameter: none, x, -1, -0, 0, 1, 2, 03, sys.maxint and
\* sys.maxint + 1
LimitTexts ==
    {<<>>, <<120>>, <<45>>, <<45, 49>>, <<45, 48>>, <<48>>, <<49>>, <<50>>,
     <<48, 51>>,
     <<57, 50, 50, 51, 51, 55, 50, 48, 51, 54, 56, 53, 52, 55, 55, 53, 56, 48, 55>>,
     <<57, 50, 50, 51, 51, 55, 50, 48, 51, 54, 56, 53, 52, 55, 55, 53, 56, 48, 56>>}

StartChoices ==
    {<<NoParam, NoParam>>, <<NoParam, "main">>, <<NoParam, "other">>,
     <<"k2", NoParam>>, <<UnknownSha, NoParam>>, <<MalformedSha, NoParam>>}

\* three commits in time order; branch main at the newest unless the
\* repository has no commit on main yet, optional branch other
InitCommitList ==
    /\ \E par \in TimedParentChoices :
          objects = TimedHistoryObjects(par, [i \in DOMAIN TimedCommits |-> i])
    /\ \E o \in Range(TimedCommits) \cup {NoOid}, unborn \in BOOLEAN :
          refs = IF unborn
                 THEN [n \in {<<"HEAD">>} |-> Symbolic(HeadsMain)]
                 ELSE HistoryRefs(TimedCommits[Len(TimedCommits)], o, NoOid)
    /\ request = NoRequest
    /\ response = NoResponse
    /\ pc = "idle"
    /\ temp_files = {}
    /\ filesystem = OneRepository
    /\ MAGIC = NoMimeType

GetCommitList ==
    \E repo_key \in {"repo", "missing"}, limit \in LimitTexts,
       start \in StartChoices :
        LET req == [op |-> "get_commit_list", repo_key |-> repo_key,
                    limit |-> limit, start_sha |-> start[1],
                    ref_name |-> start[2]]
        IN  /\ request' = req
            /\ response' \in get_commit_list(objects, refs, req)
            /\ UNCHANGED <<objects, refs, pc, temp_files, filesystem, MAGIC>>

NextCommitList == GetCommitList

SpecCommitList == InitCommitList /\ [][NextCommitList]_vars

IsCommitListCall == request.op = "get_commit_list"

\* the commit the request starts from, when the repository and the start resolve
ResolvedStart ==
    IF request.repo_key # "repo" THEN NoOid
    ELSE IF request.start_sha # NoParam
    THEN (IF request.start_sha \in DOMAIN objects THEN request.start_sha ELSE NoOid)
    ELSE IF lookup_ref(refs, <<IF request.ref_name = NoParam THEN "HEAD"
                                ELSE request.ref_name>>) = NoRef THEN NoOid
    ELSE ResolveRef(refs,
                    lookup_ref(refs, <<IF request.ref_name = NoParam THEN "HEAD"
                                       ELSE request.ref_name>>), MaxTagDepth)

\* min(limit, n) for a limit >= 0 given as text
ExpectedLength(text, n) ==
    IF Len(Digits(text)) > 9 THEN n ELSE Min({DigitsValue(Digits(text)), n})

\* C22: a non-integer or negative limit is a BadRequest; for every limit >= 0
\* and a resolvable start the result is the first min(limit, n) commits of
\* the time-sorted walk from the start commit, n the number of commits
\* reachable from it.
C22_LimitTakesPrefixOfWalk ==
    (IsCommitListCall /\ request.limit # <<>>) =>
        IF ~IsIntegerText(request.limit) \/ IsNegative(request.limit)
        THEN response.status = "BadRequest"
        ELSE ResolvedStart # NoOid =>
               /\ response.status = "ok"
               /\ \E w \in TimeWalk(objects, Reach(objects, ResolvedStart),
                                    {ResolvedStart}, {ResolvedStart}) :
                     response.commits =
                         SubSeq(w, 1, ExpectedLength(request.limit, Len(w)))

(***************************************************************************)
(* The raw file endpoint: /repos/<repo_key>/raw/<branch_or_tag_or_sha>/    *)
(* <path:file_path>                                                        *)
(***************************************************************************)
RawFail(kind) == [status |-> kind, data |-> <<>>]

\* porcelain get_raw_file_content
get_raw_file_content(objs, tree, path) ==
    LET git_obj == get_object_from_path(objs, tree, path)
    IN  IF git_obj.status # "ok" THEN RawFail(git_obj.status)
        ELSE IF objs[git_obj.oid].type # "blob" THEN RawFail("BadRequest")
        ELSE [status |-> "ok", data |-> objs[git_obj.oid].lines]

\* what magic_buffer finds in a content: text, or bytes that are none
id_buffer(content) ==
    IF \A i \in DOMAIN content : Decodable(content[i].text)
    THEN "text/plain"
    ELSE "application/octet-stream"

\* get_raw up to the file's data, before its MIME type is guessed
get_raw(objs, rs, branch_or_tag_or_sha, file_path) ==
    LET commit == get_commit_for_refspec(objs, rs, branch_or_tag_or_sha)
    IN  IF commit.status # "ok" THEN RawFail(commit.status)
        \* a tree or a blob has no attribute 'tree'
        ELSE IF objs[commit.oid].type # "commit" THEN RawFail("ServerError")
        ELSE IF get_tree(objs, objs[commit.oid].tree).status # "ok"
        THEN RawFail(get_tree(objs, objs[commit.oid].tree).status)
        ELSE get_raw_file_content(
                 objs, get_tree(objs, objs[commit.oid].tree).oid, file_path)

\* commit c1 holds file a and directory d; its child c2 holds another
\* version of a and no d; g1 is an annotated tag of c1 or of c2
RawObjects(base) ==
    [o \in {"c1", "c2", "t1", "t2", "t3", "b1", "b2", "g1"} |->
        CASE o = "c1" -> Commit("t1", <<>>, 1)
          [] o = "c2" -> Commit("t2", <<"c1">>, 2)
          [] o = "t1" -> Tree(<<Entry(<<97>>, "b1", ModeFile),
                                Entry(<<100>>, "t3", ModeTree)>>)
          [] o = "t2" -> Tree(<<Entry(<<97>>, "b2", ModeFile)>>)
          [] o = "t3" -> Tree(<<Entry(<<97>>, "b2", ModeFile)>>)
          [] o = "b1" -> Blob(<<TextLine(<<120>>)>>, 1)
          [] o = "b2" -> Blob(<<TextLine(<<255>>), TextLine(<<120>>)>>, 2)
          [] OTHER -> Tag(base)]

InitRaw ==
    /\ \E base \in {"c1", "c2"} : objects = RawObjects(base)
    /\ \E hx \in {NoOid, "c1", "c2"}, tx \in {NoOid, "c1", "c2", "g1"},
          hy \in {NoOid, "c2"} :
            refs = ResolverRefs(hx, tx, hy)
    /\ request = NoRequest
    /\ response = NoResponse
    /\ pc = "idle"
    /\ temp_files = {}
    /\ filesystem = OneRepository
    /\ MAGIC = NoMimeType

RawRefspecs ==
    {<<"x">>, <<"y">>, <<"heads", "x">>, <<"tags", "x">>, <<"c1">>, <<"t1">>}

RawPaths == {<<97>>, <<100>>, <<100, Slash, 97>>, <<98>>}

GetRaw ==
    \E branch_or_tag_or_sha \in RawRefspecs, file_path \in RawPaths :
        LET raw == get_raw(objects, refs, branch_or_tag_or_sha, file_path)
        IN  /\ request' = [op |-> "get_raw", refspec |-> branch_or_tag_or_sha,
                           file_path |-> file_path]
            \* MAGIC.id_buffer(content) leaves its result in the handle
            /\ MAGIC' = IF raw.status = "ok" THEN id_buffer(raw.data) ELSE MAGIC
            /\ response' = [status |-> raw.status, data |-> raw.data,
                            mime_type |-> IF raw.status = "ok" THEN MAGIC'
                                          ELSE NoMimeType]
            /\ UNCHANGED <<objects, refs, pc, temp_files, filesystem>>

NextRaw == GetRaw

SpecRaw == InitRaw /\ [][NextRaw]_vars

IsRawCall == request.op = "get_raw"

\* the name is a tag and a branch, and the two lead to different commits
TagAndBranchDiffer(name) ==
    /\ TagRef(name) \in DOMAIN refs
    /\ BranchRef(name) \in DOMAIN refs
    /\ peel_to_commit(objects, refs[TagRef(name)].target)
          # refs[BranchRef(name)].target

\* the file at the path in the tree of the commit, as a raw response
FileAsOf(commit, path) ==
    get_raw_file_content(objects, objects[commit].tree, path)

SegText(seg) ==
    CASE seg = "refs" -> <<114, 101, 102, 115>>
      [] seg = "heads" -> <<104, 101, 97, 100, 115>>
      [] seg = "tags" -> <<116, 97, 103, 115>>
      [] seg = "HEAD" -> <<72, 69, 65, 68>>
      [] seg = "x" -> <<120>>
      [] seg = "xy" -> <<120, 121>>
      [] seg = "s" -> <<115>>
      [] seg = "z" -> <<122>>
      [] OTHER -> <<>>

\* the name of a reference as text: its segments joined by "/"
RefText(name) == Join([i \in DOMAIN name |-> SegText(name[i])])

\* str.startswith
StartsWith(text, prefix) ==
    Len(prefix) <= Len(text) /\ SubSeq(text, 1, Len(prefix)) = prefix

\* every order of the members of a set
RECURSIVE Orders(_)
Orders(S) ==
    IF S = {} THEN {<<>>}
    ELSE UNION { {<<x>> \o t : t \in Orders(S \ {x})} : x \in S }

\* plumbing convert_ref
convert_ref(rs, name) == [ref |-> name, object |-> rs[name].target]

NoRefPath == <<"">>

\* get_refs: the set of the responses it may give, listall_references
\* promising no order
get_refs(rs, ref_path) ==
    LET prefix == IF ref_path = NoRefPath THEN <<>>
                  ELSE SegText("refs") \o <<Slash>> \o RefText(ref_path)
        ref_names == {n \in DOMAIN rs : StartsWith(RefText(n), prefix)}
        nonsymbolic_refs == {n \in ref_names : ~rs[n].symbolic}
    IN  { LET ref_data == [i \in DOMAIN order |-> convert_ref(rs, order[i])]
          IN  IF Len(ref_data) = 1 /\ RefText(ref_data[1].ref) = prefix
              THEN [status |-> "ok", exact |-> TRUE, ref_data |-> ref_data]
              ELSE [status |-> "ok", exact |-> FALSE, ref_data |-> ref_data] :
          order \in Orders(nonsymbolic_refs) }

HeadsXY == <<"refs", "heads", "xy">>
HeadsS == <<"refs", "heads", "s">>

\* HEAD and refs/heads/s are symbolic; branches x and xy and tag x are not
ListedRefCandidates == {<<"HEAD">>, HeadsS, HeadsX, HeadsXY, TagsX}

InitListedRefs ==
    /\ objects = ResolverObjects("c1")
    /\ \E names \in SUBSET ListedRefCandidates :
          refs = [n \in names |-> IF n \in {<<"HEAD">>, HeadsS} THEN Symbolic(HeadsX)
                                  ELSE IF n = TagsX THEN Direct("g1")
                                  ELSE IF n = HeadsXY THEN Direct("c2")
                                  ELSE Direct("c1")]
    /\ request = NoRequest
    /\ response = NoResponse
    /\ pc = "idle"
    /\ temp_files = {}
    /\ filesystem = OneRepository
    /\ MAGIC = NoMimeType

RefPaths ==
    {NoRefPath, <<"heads">>, <<"heads", "">>, <<"heads", "x">>, <<"heads", "xy">>,
     <<"heads", "s">>, <<"tags", "x">>, <<"tags">>, <<"z">>}

GetRefs ==
    \E ref_path \in RefPaths :
        /\ request' = [op |-> "get_refs", ref_path |-> ref_path]
        /\ response' \in get_refs(refs, ref_path)
        /\ UNCHANGED <<objects, refs, pc, temp_files, filesystem, MAGIC>>

NextListedRefs == GetRefs

SpecListedRefs == InitListedRefs /\ [][NextListedRefs]_vars

IsGetRefsCall == request.op = "get_refs"

\* the reference the request's path names exactly
NamedRef == <<"refs">> \o request.ref_path

\* C24: a ref path that exactly names an existing non-symbolic ref returns
\* that ref's single record, not a list, whatever other refs exist; symbolic
\* refs are never part of the result.
C24_ExactPathGivesSingleRecord ==
    IsGetRefsCall =>
        /\ (request.ref_path # NoRefPath /\ NamedRef \in DOMAIN refs
              /\ ~refs[NamedRef].symbolic) =>
              /\ response.exact
              /\ response.ref_data = <<convert_ref(refs, NamedRef)>>
        /\ \A i \in DOMAIN response.ref_data :
              ~refs[response.ref_data[i].ref].symbolic

(***************************************************************************)
(* Repositories on disk: the listing /repos/ (get_repo_names) and the      *)
(* opening of one by key (get_repo).                                       *)
(***************************************************************************)
DotGit == <<46, 103, 105, 116>>
Dot == <<46>>
DotDot == <<46, 46>>

\* str.endswith
EndsWith(text, suffix) ==
    /\ Len(suffix) <= Len(text)
    /\ SubSeq(text, Len(text) - Len(suffix) + 1, Len(text)) = suffix

\* os.path.isdir
isdir(fs, path) == path \in DOMAIN fs

\* os.listdir: the names directly inside a directory
listdir(fs, path) ==
    {p[Len(p)] : p \in {q \in DOMAIN fs : Len(q) = Len(path) + 1 /\ IsPrefix(path, q)}}

\* name.endswith('.git')
IsMirror(name) == EndsWith(name, DotGit)

\* porcelain get_repo_names
get_repo_names(fs) ==
    LET subdirs == {name \in listdir(fs, BasePath) : isdir(fs, BasePath \o <<name>>)}
        mirrors == {name \in subdirs : IsMirror(name)}
        working_copies == {name \in subdirs : isdir(fs, BasePath \o <<name, DotGit>>)}
    IN  mirrors \cup working_copies

\* the route /repos/
get_repo_list(fs) == [status |-> "ok", names |-> SortPaths(get_repo_names(fs))]

\* posixpath.normpath from the component comp on; comps are the components
\* kept so far
RECURSIVE NormComps(_, _, _)
NormComps(rest, comps, initial_slash) ==
    IF rest = <<>> THEN comps
    ELSE LET comp == Head(rest)
         IN  IF comp = <<>> \/ comp = Dot
             THEN NormComps(Tail(rest), comps, initial_slash)
             ELSE IF \/ comp # DotDot
                     \/ (~initial_slash /\ comps = <<>>)
                     \/ (comps # <<>> /\ comps[Len(comps)] = DotDot)
             THEN NormComps(Tail(rest), Append(comps, comp), initial_slash)
             ELSE IF comps # <<>>
             THEN NormComps(Tail(rest), SubSeq(comps, 1, Len(comps) - 1), initial_slash)
             ELSE NormComps(Tail(rest), comps, initial_slash)

\* os.path.isabs
isabs(text) == text # <<>> /\ text[1] = Slash

\* posixpath.normpath, the result as its components
normpath(text) == NormComps(Split(text), <<>>, isabs(text))

\* the mutant: os.path.join, which lets an absolute filename replace the
\* directory and keeps '..'
os_path_join(directory, filename) ==
    [status |-> "ok",
     path |-> IF isabs(filename) THEN Split(filename)
              ELSE directory \o Split(filename)]

\* flask.safe_join
safe_join(directory, filename) ==
    IF \/ isabs(filename)
       \/ (normpath(filename) # <<>> /\ normpath(filename)[1] = DotDot)
    THEN [status |-> "NotFound", path |-> <<>>]
    ELSE [status |-> "ok", path |-> directory \o normpath(filename)]

\* the directory the host finds at a path: '.' and '' stay, '..' goes up
RECURSIVE ResolvePath(_, _)
ResolvePath(rest, at) ==
    IF rest = <<>> THEN at
    ELSE IF Head(rest) = <<>> \/ Head(rest) = Dot THEN ResolvePath(Tail(rest), at)
    ELSE IF Head(rest) = DotDot
    THEN ResolvePath(Tail(rest), IF at = <<>> THEN at ELSE SubSeq(at, 1, Len(at) - 1))
    ELSE ResolvePath(Tail(rest), Append(at, Head(rest)))

NoHandle == [status |-> "NotFound", handle |-> <<>>]

\* pygit2.Repository(path): the Git directory at the path or at its .git
Repository(fs, path) ==
    LET dir == ResolvePath(path, <<>>)
    IN  IF dir \in DOMAIN fs /\ fs[dir] = "gitdir"
        THEN [status |-> "ok", handle |-> dir]
        ELSE IF (dir \o <<DotGit>>) \in DOMAIN fs /\ fs[dir \o <<DotGit>>] = "gitdir"
        THEN [status |-> "ok", handle |-> dir \o <<DotGit>>]
        ELSE [status |-> "GitError", handle |-> <<>>]

\* plumbing get_repo
get_repo(fs, repo_key) ==
    LET path == safe_join(BasePath, repo_key)
    IN  IF path.status # "ok" THEN NoHandle
        ELSE IF Repository(fs, path.path).status = "GitError" THEN NoHandle
        ELSE Repository(fs, path.path)

\* the names a, b and b.git
NameA == <<97>>
NameB == <<98>>
NameBGit == <<98, 46, 103, 105, 116>>

\* a repository outside the base path: /b.git
OutsideRepository == <<NameBGit>>

\* directories that may exist beneath the base path
DirCandidatesBelowBase ==
    {BasePath \o rel : rel \in {<<NameA>>, <<NameA, DotGit>>, <<NameA, NameBGit>>,
                                <<NameA, NameA>>, <<NameA, NameA, DotGit>>,
                                <<NameBGit>>, <<NameB>>}}

\* those that may hold a repository's files
GitDirCandidates ==
    {p \in DirCandidatesBelowBase : p[Len(p)] \in {DotGit, NameBGit, NameB}}

InitRepos ==
    /\ \E present \in SUBSET DirCandidatesBelowBase,
          gitdirs \in SUBSET GitDirCandidates :
            /\ gitdirs \subseteq present
            /\ \A p \in present :
                  Len(p) > Len(BasePath) + 1 =>
                      SubSeq(p, 1, Len(p) - 1) \in present
            /\ filesystem =
                  [p \in {<<>>, BasePath, OutsideRepository} \cup present |->
                      IF p \in gitdirs \cup {OutsideRepository} THEN "gitdir"
                      ELSE "dir"]
    /\ objects = ResolverObjects("c1")
    /\ refs = ResolverRefs("c1", NoOid, NoOid)
    /\ request = NoRequest
    /\ response = NoResponse
    /\ pc = "idle"
    /\ temp_files = {}
    /\ MAGIC = NoMimeType

GetRepoList ==
    /\ request' = [op |-> "get_repo_list"]
    /\ response' = get_repo_list(filesystem)
    /\ UNCHANGED <<objects, refs, pc, temp_files, filesystem, MAGIC>>

\* keys: b.git, a, b, a/b.git, a/a, ., .., ../b.git, /b.git, a/../b.git,
\* a/../../b.git and the empty key
RepoKeys ==
    {NameBGit, NameA, NameB, NameA \o <<Slash>> \o NameBGit,
     NameA \o <<Slash>> \o NameA, Dot, DotDot,
     DotDot \o <<Slash>> \o NameBGit, <<Slash>> \o NameBGit,
     NameA \o <<Slash>> \o DotDot \o <<Slash>> \o NameBGit,
     NameA \o <<Slash>> \o DotDot \o <<Slash>> \o DotDot \o <<Slash>> \o NameBGit,
     <<>>}

GetRepo ==
    \E repo_key \in RepoKeys :
        /\ request' = [op |-> "get_repo", repo_key |-> repo_key]
        /\ response' = get_repo(filesystem, repo_key)
        /\ UNCHANGED <<objects, refs, pc, temp_files, filesystem, MAGIC>>

NextRepos == GetRepoList \/ GetRepo

SpecRepos == InitRepos /\ [][NextRepos]_vars

IsRepoListCall == request.op = "get_repo_list"

\* the repositories beneath the base path, by path relative to it: a bare
\* one is a Git directory not named .git, a non-bare one has a Git directory
\* named .git inside
RepositoriesBelowBase ==
    {SubSeq(p, Len(BasePath) + 1, Len(p)) :
        p \in {q \in DOMAIN filesystem :
                  /\ Len(q) > Len(BasePath)
                  /\ IsPrefix(BasePath, q)
                  /\ \/ filesystem[q] = "gitdir" /\ q[Len(q)] # DotGit
                     \/ /\ (q \o <<DotGit>>) \in DOMAIN filesystem
                        /\ filesystem[q \o <<DotGit>>] = "gitdir"}}

\* C25: the repository listing includes every repository at any depth
\* beneath the base path, bare or non-bare, named by its path relative to
\* the base path.
C25_ListsRepositoriesAtAnyDepth ==
    IsRepoListCall =>
        \A rel \in RepositoriesBelowBase : Join(rel) \in Range(response.names)

IsGetRepoCall == request.op = "get_repo"

\* C26, first part: a handle get_repo returns is of a directory at or beneath
\* the base path, and a key whose joined path opens as no repository gives
\* NotFound and no handle
OpensOnlyBelowBase ==
    /\ response.status \in {"ok", "NotFound"}
    /\ response.status = "ok" => IsPrefix(BasePath, response.handle)
    /\ response.status = "NotFound" => response.handle = <<>>
    /\ Repository(filesystem,
                  BasePath \o Split(request.repo_key)).status = "GitError"
          => response = NoHandle

\* following the segments from the base path leads above it at some point;
\* depth is the number of directories entered below the base path so far
RECURSIVE LeadsAbove(_, _)
LeadsAbove(rest, depth) ==
    IF rest = <<>> THEN FALSE
    ELSE IF Head(rest) = <<>> \/ Head(rest) = Dot THEN LeadsAbove(Tail(rest), depth)
    ELSE IF Head(rest) = DotDot
    THEN (IF depth = 0 THEN TRUE ELSE LeadsAbove(Tail(rest), depth - 1))
    ELSE LeadsAbove(Tail(rest), depth + 1)

C26_WitnessAbsolute ==
    /\ IsGetRepoCall
    /\ request.repo_key = <<Slash>> \o NameBGit
    /\ response = NoHandle

\* the key a/../b.git opens b.git beneath the base path
C26_WitnessDotDotInside ==
    /\ IsGetRepoCall
    /\ request.repo_key = NameA \o <<Slash>> \o DotDot \o <<Slash>> \o NameBGit
    /\ response = [status |-> "ok", handle |-> BasePath \o <<NameBGit>>]

\* a directory that is no repository: NotFound
C26_WitnessNotARepository ==
    /\ IsGetRepoCall
    /\ request.repo_key = NameA
    /\ (BasePath \o <<NameA>>) \in DOMAIN filesystem
    /\ response = NoHandle

(***************************************************************************)
(* Merged branches: /repos/<repo_key>/branches/<branch_name>/merged/       *)
(***************************************************************************)
\* repo.listall_branches(): the names of the local branches
listall_branches(rs) ==
    {n[3] : n \in {r \in DOMAIN rs : Len(r) = 3 /\ r[1] = "refs" /\ r[2] = "heads"}}

\* repo.lookup_branch(name): the reference of the local branch, or None
lookup_branch(rs, branch_name) ==
    IF <<"refs", "heads", branch_name>> \in DOMAIN rs
    THEN <<"refs", "heads", branch_name>>
    ELSE NoRef

\* the mutant: any common history counts as merged
is_merged_with_any_base(objs, rs, current_branch, other_branch) ==
    {a # NoOid :
        a \in CommonAncestorOrNone(objs, rs[current_branch].target,
                                   rs[other_branch].target)}

\* _is_merged: the answers it can give, merge_base returning one of the
\* best common ancestors, or KeyError when there is none
is_merged(objs, rs, current_branch, other_branch) ==
    {a = rs[other_branch].target :
        a \in CommonAncestorOrNone(objs, rs[current_branch].target,
                                   rs[other_branch].target)}

\* the sets of branch names the merged filter can keep
RECURSIVE MergedChoices(_, _, _, _)
MergedChoices(objs, rs, branch, other_names) ==
    IF other_names = {} THEN {{}}
    ELSE LET name == CHOOSE x \in other_names : TRUE
             rest == MergedChoices(objs, rs, branch, other_names \ {name})
         IN  {IF merged THEN kept \cup {name} ELSE kept :
                 kept \in rest,
                 merged \in is_merged(objs, rs, branch, lookup_branch(rs, name))}

\* get_merged_branches: the responses it can give
get_merged_branches(objs, rs, branch_name) ==
    IF lookup_branch(rs, branch_name) = NoRef
    THEN {[status |-> "NotFound", branches |-> <<>>]}
    ELSE UNION { {[status |-> "ok", branches |-> order] : order \in Orders(kept)} :
                 kept \in MergedChoices(objs, rs, lookup_branch(rs, branch_name),
                                        listall_branches(rs) \ {branch_name}) }

\* branches main, other and third on any of three commits, other and third
\* being optional; HEAD -> main
InitMerged ==
    /\ \E par \in TimedParentChoices :
          objects = TimedHistoryObjects(par, [i \in DOMAIN TimedCommits |-> i])
    /\ \E m \in Range(TimedCommits),
          o \in Range(TimedCommits) \cup {NoOid},
          t \in Range(TimedCommits) \cup {NoOid} :
            refs = [n \in {<<"HEAD">>, HeadsMain}
                            \cup (IF o = NoOid THEN {} ELSE {HeadsOther})
                            \cup (IF t = NoOid THEN {} ELSE {<<"refs", "heads", "third">>}) |->
                       IF n = <<"HEAD">> THEN Symbolic(HeadsMain)
                       ELSE IF n = HeadsMain THEN Direct(m)
                       ELSE IF n = HeadsOther THEN Direct(o)
                       ELSE Direct(t)]
    /\ request = NoRequest
    /\ response = NoResponse
    /\ pc = "idle"
    /\ temp_files = {}
    /\ filesystem = OneRepository
    /\ MAGIC = NoMimeType

GetMergedBranches ==
    \E branch_name \in {"main", "other", "third", "gone"} :
        /\ request' = [op |-> "get_merged_branches", branch_name |-> branch_name]
        /\ response' \in get_merged_branches(objects, refs, branch_name)
        /\ UNCHANGED <<objects, refs, pc, temp_files, filesystem, MAGIC>>

NextMerged == GetMergedBranches

SpecMerged == InitMerged /\ [][NextMerged]_vars

IsMergedCall == request.op = "get_merged_branches" /\ response.status = "ok"

\* the other local branches whose tip is the branch's tip or an ancestor of it
BranchesWithin(branch_name) ==
    {name \in listall_branches(refs) \ {branch_name} :
        refs[<<"refs", "heads", name>>].target
            \in Reach(objects, refs[<<"refs", "heads", branch_name>>].target)}

\* C27: get_merged_branches returns exactly the other local branches whose
\* tip is the given branch's tip or one of its ancestors; never the branch
\* itself, never a branch whose tip is not reachable from the branch's tip.
C27_MergedAreBranchesWithin ==
    IsMergedCall =>
        /\ Range(response.branches) = BranchesWithin(request.branch_name)
        /\ Len(response.branches) = Cardinality(Range(response.branches))
        /\ request.branch_name \notin Range(response.branches)

\* one branch listed as merged, another with unrelated or later history not
C27_Witness ==
    /\ IsMergedCall
    /\ request.branch_name = "main"
    /\ lookup_branch(refs, "other") # NoRef
    /\ lookup_branch(refs, "third") # NoRef
    /\ refs[HeadsOther].target # refs[HeadsMain].target
    /\ response.branches = <<"other">>

\* a branch of unrelated history is not listed
C27_WitnessUnrelated ==
    /\ IsMergedCall
    /\ request.branch_name = "main"
    /\ lookup_branch(refs, "other") # NoRef
    /\ Reach(objects, refs[HeadsOther].target)
          \cap Reach(objects, refs[HeadsMain].target) = {}
    /\ response.branches = <<>>

(***************************************************************************)
(* Requests served at the same time.  A WSGI server runs each request's    *)
(* handler in a thread of its own; the raw file handlers all use the one   *)
(* libmagic handle MAGIC, created when porcelain/routes.py is imported     *)
(* with libmagic installed.  magic_buffer leaves its result in the handle, *)
(* from where it is copied into the response.  Here pc, request and        *)
(* response are per thread.                                                *)
(***************************************************************************)
Threads == {"thread1", "thread2"}

InitMagic ==
    /\ objects = RawObjects("c1")
    /\ \E hx \in {"c1", "c2"} : refs = ResolverRefs(hx, NoOid, NoOid)
    /\ request = [t \in Threads |-> NoRequest]
    /\ response = [t \in Threads |-> NoResponse]
    /\ pc = [t \in Threads |-> "idle"]
    /\ temp_files = {}
    /\ filesystem = OneRepository
    /\ MAGIC = NoMimeType

\* get_raw up to and including magic_buffer
RawIdentify(t) ==
    \E branch_or_tag_or_sha \in {<<"x">>, <<"c1">>},
       file_path \in {<<97>>, <<100, Slash, 97>>, <<98>>} :
        LET raw == get_raw(objects, refs, branch_or_tag_or_sha, file_path)
        IN  /\ pc[t] = "idle"
            /\ request' = [request EXCEPT ![t] =
                              [op |-> "get_raw", refspec |-> branch_or_tag_or_sha,
                               file_path |-> file_path]]
            /\ IF raw.status = "ok"
               THEN /\ MAGIC' = id_buffer(raw.data)
                    /\ pc' = [pc EXCEPT ![t] = "identified"]
                    /\ response' = [response EXCEPT ![t] =
                                       [status |-> "pending", data |-> raw.data,
                                        mime_type |-> NoMimeType]]
               ELSE /\ response' = [response EXCEPT ![t] =
                                       [status |-> raw.status, data |-> raw.data,
                                        mime_type |-> NoMimeType]]
                    /\ UNCHANGED <<pc, MAGIC>>
            /\ UNCHANGED <<objects, refs, temp_files, filesystem>>

\* the result is taken from the handle and the response sent
RawRespond(t) ==
    /\ pc[t] = "identified"
    /\ response' = [response EXCEPT ![t] =
                       [status |-> "ok", data |-> response[t].data,
                        mime_type |-> MAGIC]]
    /\ pc' = [pc EXCEPT ![t] = "idle"]
    /\ UNCHANGED <<objects, refs, request, temp_files, filesystem, MAGIC>>

NextMagic == \E t \in Threads : RawIdentify(t) \/ RawRespond(t)

SpecMagic == InitMagic /\ [][NextMagic]_vars

----------------------------------------------------------------------------
(* Paths of the recursive flattening (checked under SpecTrees) *)

\* every entry below a tree with the names from that tree down, joined by "/"
RECURSIVE PathsFromRoot(_, _, _)
PathsFromRoot(objs, tree, prefix) ==
    UNION { {[path |-> prefix \o entry.name, sha |-> entry.id]} \cup
            (IF entry.filemode # GIT_MODE_SUBMODULE /\ objs[entry.id].type = "tree"
             THEN PathsFromRoot(objs, entry.id, prefix \o entry.name \o <<Slash>>)
             ELSE {}) :
            entry \in Range(objs[tree].entries) }

\* C29: in recursive flattening every emitted entry, blob, tree or
\* submodule, carries the '/'-joined names from the root tree down to it,
\* so no two emitted entries share a path.
C29_PathsAreFromRoot ==
    (IsConvertTreeCall /\ request.recursive) =>
        /\ {[path |-> e.path, sha |-> e.sha] : e \in Range(response.tree)}
              = PathsFromRoot(objects, request.tree, <<>>)
        /\ \A i, j \in DOMAIN response.tree :
              response.tree[i].path = response.tree[j].path => i = j

(***************************************************************************)
(* The compare endpoint, /repos/<repo_key>/compare/<old>...<new>.diff      *)
(* ?context=, and the three endpoints with numeric query parameters served *)
(* from one repository.                                                    *)
(***************************************************************************)
\* the context parameter: not given, which stands for 3, or a text
NoContext == [given |-> FALSE, text |-> <<51>>]

Context(text) == [given |-> TRUE, text |-> text]

CompareFail(kind) == [status |-> kind, diff |-> <<>>]

get_compare_diff(objs, rs, req) ==
    LET old_commit == get_commit_for_refspec(objs, rs, req.old)
        new_commit == get_commit_for_refspec(objs, rs, req.new)
    IN  IF ~IsIntegerText(req.context.text) THEN CompareFail("BadRequest")
        ELSE IF IsNegative(req.context.text) THEN CompareFail("BadRequest")
        ELSE IF req.repo_key # "repo" THEN CompareFail("NotFound")
        ELSE IF old_commit.status # "ok" THEN CompareFail(old_commit.status)
        ELSE IF new_commit.status # "ok" THEN CompareFail(new_commit.status)
        \* a tree or a blob has no attribute 'tree'
        ELSE IF objs[old_commit.oid].type # "commit"
                   \/ objs[new_commit.oid].type # "commit"
        THEN CompareFail("ServerError")
        ELSE [status |-> "ok",
              diff |-> get_diff(objs, new_commit.oid, old_commit.oid)]

\* texts of the context parameter: not given, empty, x, -1, 0 and 3
ContextTexts ==
    {NoContext} \cup
    {Context(text) : text \in {<<>>, <<120>>, <<45, 49>>, <<48>>, <<51>>}}

GetCompareDiff ==
    \E repo_key \in {"repo", "missing"}, context \in ContextTexts,
       old \in {<<"old">>, <<"gone">>} :
        LET req == [op |-> "get_compare_diff", repo_key |-> repo_key,
                    context |-> context, old |-> old, new |-> <<"main">>]
        IN  /\ request' = req
            /\ response' = get_compare_diff(objects, refs, req)
            /\ UNCHANGED <<objects, refs, pc, temp_files, filesystem, MAGIC>>

NextValidation == GetBlame \/ GetCommitList \/ GetCompareDiff

SpecValidation == InitBlame /\ [][NextValidation]_vars

IsCompareCall == request.op = "get_compare_diff"

\* the line numbers of a blame request are malformed, non-positive or inverted
BadLineNumbers ==
    \/ request.firstLine.kind = "text"
    \/ request.firstLine.kind = "int" /\ request.firstLine.value < 1
    \/ request.lastLine.kind = "text"
    \/ request.lastLine.kind = "int" /\ request.lastLine.value < 1
    \/ request.lastLine.kind = "int" /\ FirstLine > request.lastLine.value

\* a numeric text the endpoint refuses: no integer, or a negative one
BadNumber(text) == ~IsIntegerText(text) \/ IsNegative(text)

\* the repository, the refspec or the file of a blame request does not exist
BlamedFileMissing ==
    \/ request.repo_key # "repo"
    \/ HeadsMain \notin DOMAIN refs
    \/ \A i \in DOMAIN objects["t0"].entries :
          objects["t0"].entries[i].name # request.path

LinesOutOfBounds ==
    \/ FirstLine > LineCount
    \/ request.lastLine.kind = "int" /\ request.lastLine.value > LineCount

\* C30: the numeric parameters are checked before the repository is opened,
\* so a bad one gives BadRequest even when the repository, refspec or file
\* does not exist; the blame bounds check runs after repository, refspec and
\* file have resolved, so a missing one gives NotFound; and 'oldest' is
\* resolved only after the bounds check has passed.
C30_ValidationOrder ==
    /\ IsBlameCall =>
          /\ BadLineNumbers => response.status = "BadRequest"
          /\ (~BadLineNumbers /\ BlamedFileMissing) => response.status = "NotFound"
          /\ (~BadLineNumbers /\ BlamedFileExists /\ LinesOutOfBounds)
                => response.status = "BadRequest"
          /\ (~BadLineNumbers /\ BlamedFileExists /\ ~LinesOutOfBounds
                /\ ~OldestResolves) => response.status = "NotFound"
    /\ (IsCommitListCall /\ request.limit # <<>> /\ BadNumber(request.limit))
          => response.status = "BadRequest"
    /\ (IsCompareCall /\ request.context.given /\ BadNumber(request.context.text))
          => response.status = "BadRequest"

\* inverted line numbers on a repository that does not exist: BadRequest
C30_Witness ==
    /\ IsBlameCall
    /\ request.repo_key = "missing"
    /\ request.firstLine = Integer(2)
    /\ request.lastLine = Integer(1)
    /\ response.status = "BadRequest"

\* line numbers beyond the file with an 'oldest' that does not resolve:
\* BadRequest, not NotFound
C30_WitnessOldestAfterBounds ==
    /\ IsBlameCall
    /\ BlamedFileExists
    /\ ~BadLineNumbers
    /\ LinesOutOfBounds
    /\ ~OldestResolves
    /\ response.status = "BadRequest"

\* valid line numbers beyond what any file holds, the branch missing: NotFound
C30_WitnessMissingRefspec ==
    /\ IsBlameCall
    /\ request.repo_key = "repo"
    /\ HeadsMain \notin DOMAIN refs
    /\ request.firstLine = Integer(MaxLines + 1)
    /\ response.status = "NotFound"

\* a negative limit on a repository that does not exist: BadRequest
C30_WitnessLimit ==
    /\ IsCommitListCall
    /\ request.repo_key = "missing"
    /\ request.limit = <<45, 49>>
    /\ response.status = "BadRequest"

\* a context that is no integer with a refspec that does not exist: BadRequest
C30_WitnessContext ==
    /\ IsCompareCall
    /\ request.old = <<"gone">>
    /\ request.context = Context(<<120>>)
    /\ response.status = "BadRequest"

====
